---- MODULE Spec2Model ----
(***************************************************************************)
(* vsh job control: the job table, the SIGCHLD handler, foreground waits,  *)
(* pipelines, background jobs, fg/bg, the prompt-cycle scan and shutdown.  *)
(*                                                                         *)
(* The shell's main flow is a program counter (pc) over the statements of  *)
(* job_control.c, executor.c, pipeline.c and shell.c between which a       *)
(* SIGCHLD can be delivered.  The handler runs only while inHandler holds  *)
(* and the main flow is suspended meanwhile.  Child processes are          *)
(* kernel-side records that start, stop and terminate on their own.        *)
(***************************************************************************)
EXTENDS Integers, Sequences, FiniteSets, TLC

VARIABLES
    interactive,  \* shell->interactive
    installed,    \* sigchld_handler installed and g_shell set
    procs,        \* kernel view of the shell's children, by pid
    jobs,         \* shell->jobs->head, the list from its head
    next_id,      \* shell->jobs->next_id
    tty,          \* foreground process group of the controlling terminal
    pending,      \* a SIGCHLD is pending for the shell
    inHandler,    \* sigchld_handler is executing
    pc,           \* statement the main flow is at
    op,           \* the command being executed and its local pids[] array
    cur,          \* the Job* the main flow holds (its id; 0 is NULL)
    newjob,       \* the Job allocated by job_add and not yet linked
    status,       \* the local `status` of the function being executed; at
                  \* pc = "done", the value stored in shell->last_status
    wpid,         \* the local `pid` of job_wait_foreground
    cursor,       \* position of the list walk in progress
    printed,      \* id of the job whose Done/Killed line job_check_background
                  \* has printed and which it has not removed yet (0: none)
    pl,           \* pipeline_execute seen at the level of file descriptors:
                  \* its position, locals, open pipe fds and forked children
    frames,       \* the activations of shell_exec_line, outermost first
    arena_gen,    \* number of arena_reset calls on shell->parse_arena so far
    fn_body,      \* the body pointer exec_function stored under "func:<name>":
                  \* the arena generation it points into (-1: none stored)
    last_status,  \* shell->last_status as the driver leaves it
    syn,          \* one line taken through lexer_tokenize, parser_parse and
                  \* the execution of a simple command
    repl,         \* main's read loop: the mode, shell->running, the line read
    disp,         \* signal dispositions of the shell and of a forked child
    al,           \* expand_aliases: the table, the line being rewritten, the loop
    ar,           \* the arena allocator (arena.c)
    ifx,          \* an if/elif/else chain: its tokens, its tree, the walk of exec_if
    ds            \* shell->dirstack: its top and the slots of dirs the last call touched

\* the variables of the driver view (shell_exec_line and what it calls)
drvvars == <<frames, arena_gen, fn_body, last_status>>

\* the variables of the other views of the shell, which the job-control
\* actions leave alone
aside == <<pl, drvvars, syn, repl, disp, al, ar, ifx, ds>>

vars == <<interactive, installed, procs, jobs, next_id, tty, pending, inHandler,
          pc, op, cur, newjob, status, wpid, cursor, printed, aside>>

\* ---- bounds ------------------------------------------------------------
MaxPid == 2
MaxPipe == 2

\* ---- program constants -------------------------------------------------
ShellPgid == 0
SIGKILL == 9
SIGTERM == 15
SIGTSTP == 20
W_CONTINUED == 65535
SA_NOCLDSTOP == TRUE

Pids == 1..MaxPid
ExitCodes == {0, 1}

\* ---- wait status words --------------------------------------------------
W_EXITCODE(code) == code * 256
W_TERMSIG(sig) == sig
W_STOPCODE(sig) == sig * 256 + 127

WIFEXITED(s) == (s % 128) = 0
WEXITSTATUS(s) == (s \div 256) % 256
WIFSIGNALED(s) == (s % 128) \notin {0, 127}
WTERMSIG(s) == s % 128
WIFSTOPPED(s) == (s % 256) = 127
WIFCONTINUED(s) == s = W_CONTINUED

TermStatuses == {W_EXITCODE(c) : c \in ExitCodes} \cup {W_TERMSIG(SIGKILL)}

\* job_wait_foreground's "Extract exit code"
WaitResult(s) ==
    IF WIFEXITED(s) THEN WEXITSTATUS(s)
    ELSE IF WIFSIGNALED(s) THEN 128 + WTERMSIG(s)
    ELSE s

\* ---- records ------------------------------------------------------------
NoProc == [st |-> "unborn", pgid |-> 0, job |-> 0, ws |-> 0, rep |-> "none",
           boot |-> FALSE]
NoJob == [id |-> 0, pgid |-> 0, pids |-> <<>>, state |-> "Running",
          notified |-> FALSE]
NoOp == [kind |-> "none", pids |-> <<>>, n |-> 0, neg |-> FALSE]

\* pipeline_execute not running: no pipe, no child
PlIdle == [pc |-> "idle", n |-> 0, neg |-> FALSE, i |-> 0, npipes |-> 0,
           fds |-> {}, kids |-> <<>>, ret |-> 0]

\* ---- kernel helpers -----------------------------------------------------
Alive(p) == procs[p].st \in {"running", "stopped", "zombie"}
GroupMembers(g) == {p \in Pids : Alive(p) /\ procs[p].pgid = g}
Unborn == {p \in Pids : procs[p].st = "unborn"}
FreshPid == CHOOSE p \in Unborn : \A q \in Unborn : p <= q

\* what waitpid can report for child p: a termination always, a stop under
\* WUNTRACED, a continue under WCONTINUED
Reportable(p, untraced, continued) ==
    \/ procs[p].st = "zombie"
    \/ untraced /\ procs[p].st = "stopped" /\ procs[p].rep = "stop"
    \/ continued /\ procs[p].st = "running" /\ procs[p].rep = "cont"

ReportedStatus(p) ==
    IF procs[p].st = "zombie" THEN procs[p].ws
    ELSE IF procs[p].st = "stopped" THEN W_STOPCODE(SIGTSTP)
    ELSE W_CONTINUED

\* the kernel's side of a successful waitpid for child p: a reported stop or
\* continue is consumed; a zombie is released (what it was is remembered
\* only while the command that forked it is still executing)
Collect(p) ==
    IF procs[p].st = "zombie"
    THEN [procs EXCEPT ![p] =
            [NoProc EXCEPT !.st = "reaped", !.job = procs[p].job,
                           !.ws = IF \E k \in 1..Len(op.pids) : op.pids[k] = p
                                  THEN procs[p].ws ELSE 0]]
    ELSE [procs EXCEPT ![p].rep = "none"]

\* kill(-g, sig) / kill(pid, sig) with a fatal signal, on the set ps
Killed(ps, sig) ==
    [p \in Pids |->
        IF p \in ps /\ procs[p].st \in {"running", "stopped"}
        THEN [procs[p] EXCEPT !.st = "zombie", !.ws = W_TERMSIG(sig),
                              !.rep = "none", !.boot = FALSE]
        ELSE procs[p]]

\* tcsetpgrp(STDIN_FILENO, g) by the shell, which ignores SIGTTOU
Tcsetpgrp(g) ==
    IF interactive /\ (g = ShellPgid \/ GroupMembers(g) # {}) THEN g ELSE tty

\* ---- job table helpers --------------------------------------------------
SeqMin(S) == CHOOSE i \in S : \A k \in S : i <= k

job_find_by_id(js, id) ==
    LET hit == {i \in 1..Len(js) : js[i].id = id}
    IN  IF hit = {} THEN 0 ELSE SeqMin(hit)

job_find_by_pid(js, pid) ==
    LET hit == {i \in 1..Len(js) :
                   \E k \in 1..Len(js[i].pids) : js[i].pids[k] = pid}
    IN  IF hit = {} THEN 0 ELSE SeqMin(hit)

job_most_recent(js) ==
    IF js = <<>> THEN 0
    ELSE CHOOSE i \in 1..Len(js) : \A k \in 1..Len(js) : js[k].id <= js[i].id

\* the slot loop of job_update_status: zero the first slot holding pid
ZeroSlot(pids, pid) ==
    LET hit == {k \in 1..Len(pids) : pids[k] = pid}
    IN  IF hit = {} THEN pids ELSE [pids EXCEPT ![SeqMin(hit)] = 0]

\* job_update_status without the all_done test: the first termination
\* reported for a job completes it
job_update_status_first_exit(js, pid, s) ==
    LET i == job_find_by_pid(js, pid)
    IN  IF i = 0 THEN js
        ELSE IF WIFSTOPPED(s)
        THEN [js EXCEPT ![i].state = "Stopped", ![i].notified = FALSE]
        ELSE IF WIFCONTINUED(s)
        THEN [js EXCEPT ![i].state = "Running", ![i].notified = FALSE]
        ELSE IF WIFEXITED(s) \/ WIFSIGNALED(s)
        THEN [js EXCEPT ![i].pids = ZeroSlot(js[i].pids, pid),
                        ![i].state = IF WIFSIGNALED(s) THEN "Killed"
                                     ELSE "Done",
                        ![i].notified = FALSE]
        ELSE js

\* job_update_status that unlinks the job it has just completed
job_update_status_unlinks(js, pid, s) ==
    LET i == job_find_by_pid(js, pid)
    IN  IF i = 0 THEN js
        ELSE IF WIFSTOPPED(s)
        THEN [js EXCEPT ![i].state = "Stopped", ![i].notified = FALSE]
        ELSE IF WIFCONTINUED(s)
        THEN [js EXCEPT ![i].state = "Running", ![i].notified = FALSE]
        ELSE IF WIFEXITED(s) \/ WIFSIGNALED(s)
        THEN LET zs == ZeroSlot(js[i].pids, pid)
                 all_done == \A k \in 1..Len(zs) : zs[k] = 0
             IN  IF all_done
                 THEN SelectSeq(js, LAMBDA j : j.id # js[i].id)
                 ELSE [js EXCEPT ![i].pids = zs]
        ELSE js

job_update_status(js, pid, s) ==
    LET i == job_find_by_pid(js, pid)
    IN  IF i = 0 THEN js
        ELSE IF WIFSTOPPED(s)
        THEN [js EXCEPT ![i].state = "Stopped", ![i].notified = FALSE]
        ELSE IF WIFCONTINUED(s)
        THEN [js EXCEPT ![i].state = "Running", ![i].notified = FALSE]
        ELSE IF WIFEXITED(s) \/ WIFSIGNALED(s)
        THEN LET zs == ZeroSlot(js[i].pids, pid)
                 all_done == \A k \in 1..Len(zs) : zs[k] = 0
             IN  IF all_done
                 THEN [js EXCEPT ![i].pids = zs,
                                 ![i].state = IF WIFSIGNALED(s) THEN "Killed"
                                              ELSE "Done",
                                 ![i].notified = FALSE]
                 ELSE [js EXCEPT ![i].pids = zs]
        ELSE js

CurJob == jobs[job_find_by_id(jobs, cur)]

\* nodes job_table_destroy has already freed but that are still linked
FreedNodes == IF pc \in {"jd", "jd_wait"} THEN 1..(cursor - 1) ELSE {}

\* ---- returning a status to the driver -----------------------------------
\* the callee's return value v, pipeline_execute's negation, and the
\* assignment to shell->last_status
Return(v) ==
    /\ status' = IF op.kind = "pipe" /\ op.neg
                 THEN (IF v = 0 THEN 1 ELSE 0) ELSE v
    /\ pc' = "done"

\* the NULL ASTNode pointer, in the shape of a node
NoNode == [type |-> "NULL", argv |-> <<>>, redirs |-> <<>>, assignments |-> <<>>,
           kids |-> <<>>]

\* main has not reached its read loop yet
ReplIdle == [pc |-> "main", mode |-> "none", running |-> TRUE, nread |-> 0,
             line |-> "", has_stopped |-> FALSE, warned_about_jobs |-> FALSE,
             last_status |-> 0,
            prev |-> ""]

\* the shell process has not been started yet
DispIdle == [pc |-> "unborn", interactive |-> FALSE, shell |-> <<>>,
             child |-> <<>>, site |-> "none"]

\* no arena has been created yet
ArIdle == [pc |-> "idle", pages |-> <<>>, current |-> 0, page_size |-> 0,
           total_allocated |-> 0, total_pages |-> 0, freed |-> 0,
           n |-> 0, ptr |-> <<>>]

\* no if statement has been entered yet
NullPtr == [type |-> "NULL"]
IfIdle == [pc |-> "idle", tokens |-> <<>>, ast |-> NullPtr, node |-> NullPtr,
           conds |-> <<>>, bodies |-> <<>>, ret |-> -1]

\* shell_init has not allocated the directory stack yet
DsIdle == [pc |-> "unborn", top |-> 0, touched |-> {}]

\* expand_aliases has not been called yet
AlIdle == [pc |-> "idle", table |-> <<>>, current |-> <<>>, depth |-> 0,
           subs |-> 0]

\* no line has been handed to the lexer yet
SynIdle == [pc |-> "idle", input |-> <<>>, nfrags |-> 0, tokens |-> <<>>, lex_error |-> "",
            ast |-> NoNode, had_error |-> FALSE, error |-> "",
            chain |-> <<>>, applied |-> <<>>, forked |-> FALSE,
            env |-> {}, ret |-> -1, argv |-> <<>>, stderr |-> <<>>,
            builtin |-> FALSE, stdout |-> <<>>]

Init ==
    /\ interactive \in BOOLEAN
    /\ installed \in BOOLEAN
    /\ interactive => installed
    /\ procs = [p \in Pids |-> NoProc]
    /\ jobs = <<>>
    /\ next_id = 1
    /\ tty = ShellPgid
    /\ pending = FALSE
    /\ inHandler = FALSE
    /\ pc = "prompt"
    /\ op = NoOp
    /\ cur = 0
    /\ newjob = NoJob
    /\ status = 0
    /\ wpid = 0
    /\ cursor = 0
    /\ printed = 0
    /\ pl = PlIdle
    /\ frames = <<>>
    /\ arena_gen = 0
    /\ fn_body = -1
    /\ last_status = 0
    /\ syn = SynIdle
    /\ repl = ReplIdle
    /\ disp = DispIdle
    /\ al = AlIdle
    /\ ar = ArIdle
    /\ ifx = IfIdle
    /\ ds = DsIdle

\* the read loop has a line to execute
AtPrompt == pc = "prompt" /\ ~inHandler


\* ---- executor_exec_command: fork of a foreground external ---------------
StartForeground ==
    /\ AtPrompt
    /\ \/ /\ op' = [NoOp EXCEPT !.kind = "cmd"]
          /\ Return(1)
          /\ UNCHANGED procs
       \/ /\ Unborn # {}
          /\ LET p == FreshPid
             IN  /\ procs' = [procs EXCEPT ![p] =
                        [st |-> "running", pgid |-> p, job |-> p, ws |-> 0,
                         rep |-> "none", boot |-> TRUE]]
                 /\ op' = [NoOp EXCEPT !.kind = "cmd", !.pids = <<p>>, !.n = 1]
          /\ pc' = "job_add"
          /\ UNCHANGED status
    /\ UNCHANGED <<aside, interactive, installed, jobs, next_id, tty, pending,
                   inHandler, cur, newjob, wpid, cursor,
                   printed>>

\* ---- exec_background: fork of the child that runs the subtree -----------
StartBackground ==
    /\ AtPrompt
    /\ \/ /\ op' = [NoOp EXCEPT !.kind = "bg"]
          /\ Return(1)
          /\ UNCHANGED procs
       \/ /\ Unborn # {}
          /\ LET p == FreshPid
             IN  /\ procs' = [procs EXCEPT ![p] =
                        [st |-> "running", pgid |-> p, job |-> p, ws |-> 0,
                         rep |-> "none", boot |-> FALSE]]
                 /\ op' = [NoOp EXCEPT !.kind = "bg", !.pids = <<p>>, !.n = 1]
          /\ pc' = "job_add"
          /\ UNCHANGED status
    /\ UNCHANGED <<aside, interactive, installed, jobs, next_id, tty, pending,
                   inHandler, cur, newjob, wpid, cursor,
                   printed>>

\* ---- pipeline_execute ----------------------------------------------------
StartPipeline(n, neg) ==
    /\ AtPrompt
    /\ Cardinality(Unborn) >= n
    /\ op' = [kind |-> "pipe", pids |-> <<>>, n |-> n, neg |-> neg]
    /\ pc' = "pl_fork"
    /\ UNCHANGED <<aside, interactive, installed, procs, jobs, next_id, tty, pending,
                   inHandler, cur, newjob, status, wpid, cursor, printed>>

\* one turn of the fork loop: fork() fails and the children started so far
\* get SIGTERM, or child i is created and put in the pipeline's group (by its
\* own setpgid(0, pgid) and the parent's setpgid(pid, pgid), which both fail
\* once the leader has been reaped)
PipelineFork ==
    /\ pc = "pl_fork" /\ ~inHandler
    /\ \/ /\ procs' = Killed({op.pids[k] : k \in 1..Len(op.pids)}, SIGTERM)
          /\ pending' = (pending \/ (installed /\ procs' # procs))
          /\ status' = 1
          /\ pc' = "done"
          /\ UNCHANGED op
       \/ /\ LET p == FreshPid
                 leader == IF op.pids = <<>> THEN p ELSE op.pids[1]
                 pg == IF leader = p \/ GroupMembers(leader) # {}
                       THEN leader ELSE ShellPgid
             IN  /\ procs' = [procs EXCEPT ![p] =
                        [st |-> "running", pgid |-> pg, job |-> leader,
                         ws |-> 0, rep |-> "none", boot |-> FALSE]]
                 /\ op' = [op EXCEPT !.pids = Append(op.pids, p)]
          /\ pc' = IF Len(op.pids) + 1 = op.n THEN "pl_tc" ELSE "pl_fork"
          /\ UNCHANGED <<pending, status>>
    /\ UNCHANGED <<aside, interactive, installed, jobs, next_id, tty, inHandler, cur,
                   newjob, wpid, cursor, printed>>

\* "Give the pipeline the terminal", then the call of job_add
PipelineTcsetpgrp ==
    /\ pc = "pl_tc" /\ ~inHandler
    /\ tty' = Tcsetpgrp(op.pids[1])
    /\ pc' = "job_add"
    /\ UNCHANGED <<aside, interactive, installed, procs, jobs, next_id, pending,
                   inHandler, op, cur, newjob, status, wpid, cursor, printed>>

\* ---- job_add -------------------------------------------------------------
\* what the caller does with a NULL job: exec_background returns 0,
\* the others pass it to job_wait_foreground
AfterJobAdd == IF op.kind = "bg" THEN Return(0)
               ELSE pc' = "wf_enter" /\ UNCHANGED status

\* malloc of the Job fails and NULL is returned, or the node is filled in
\* (next_id++ and the field assignments; the malloc of its pids array is
\* taken to succeed)
JobAddAlloc ==
    /\ pc = "job_add" /\ ~inHandler
    /\ \/ /\ cur' = 0
          /\ AfterJobAdd
          /\ UNCHANGED <<next_id, newjob>>
       \/ /\ next_id' = next_id + 1
          /\ newjob' = [id |-> next_id, pgid |-> op.pids[1], pids |-> op.pids,
                        state |-> "Running", notified |-> FALSE]
          /\ pc' = "ja_link"
          /\ UNCHANGED <<cur, status>>
    /\ UNCHANGED <<aside, interactive, installed, procs, jobs, tty, pending,
                   inHandler, op, wpid, cursor, printed>>

\* "Prepend to the list" and the return to the caller
JobAddLink ==
    /\ pc = "ja_link" /\ ~inHandler
    /\ jobs' = <<newjob>> \o jobs
    /\ cur' = newjob.id
    /\ newjob' = NoJob
    /\ AfterJobAdd
    /\ UNCHANGED <<aside, interactive, installed, procs, next_id, tty, pending,
                   inHandler, op, wpid, cursor, printed>>

\* ---- job_wait_foreground ------------------------------------------------
WfEnter ==
    /\ pc = "wf_enter" /\ ~inHandler
    /\ IF cur = 0
       THEN Return(-1) /\ UNCHANGED tty
       ELSE /\ status' = 0
            /\ tty' = Tcsetpgrp(CurJob.pgid)
            /\ pc' = "wf_check"
    /\ UNCHANGED <<aside, interactive, installed, procs, jobs, next_id, pending,
                   inHandler, op, cur, newjob, wpid, cursor,
                   printed>>

\* while (job->state == JOB_RUNNING)
WfCheck ==
    /\ pc = "wf_check" /\ ~inHandler
    /\ pc' = IF CurJob.state = "Running" THEN "wf_wait" ELSE "wf_restore"
    /\ UNCHANGED <<aside, interactive, installed, procs, jobs, next_id, tty, pending,
                   inHandler, op, cur, newjob, status, wpid, cursor, printed>>

\* waitpid(-job->pgid, &status, WUNTRACED): a child of the group is reported,
\* or the group has no child left (ECHILD); otherwise the call blocks
WfWaitpid ==
    /\ pc = "wf_wait" /\ ~inHandler
    /\ \/ \E p \in GroupMembers(CurJob.pgid) :
            /\ Reportable(p, TRUE, FALSE)
            /\ status' = ReportedStatus(p)
            /\ wpid' = p
            /\ procs' = Collect(p)
            /\ pc' = "wf_update"
       \/ /\ GroupMembers(CurJob.pgid) = {}
          /\ pc' = "wf_restore"
          /\ UNCHANGED <<procs, status, wpid>>
    /\ UNCHANGED <<aside, interactive, installed, jobs, next_id, tty, pending,
                   inHandler, op, cur, newjob, cursor, printed>>

WfUpdate ==
    /\ pc = "wf_update" /\ ~inHandler
    /\ jobs' = job_update_status(jobs, wpid, status)
    /\ pc' = "wf_check"
    /\ UNCHANGED <<aside, interactive, installed, procs, next_id, tty, pending,
                   inHandler, op, cur, newjob, status, wpid, cursor, printed>>

\* "Restore the shell to the foreground"
WfRestore ==
    /\ pc = "wf_restore" /\ ~inHandler
    /\ tty' = Tcsetpgrp(ShellPgid)
    /\ pc' = "wf_ret"
    /\ UNCHANGED <<aside, interactive, installed, procs, jobs, next_id, pending,
                   inHandler, op, cur, newjob, status, wpid, cursor, printed>>

\* job_wait_foreground that marks a job still Running as Done on its way out
WfReturn_marks_done ==
    /\ pc = "wf_ret" /\ ~inHandler
    /\ jobs' = IF CurJob.state = "Stopped"
               THEN [jobs EXCEPT ![job_find_by_id(jobs, cur)].notified = TRUE]
               ELSE [jobs EXCEPT ![job_find_by_id(jobs, cur)].state = "Done"]
    /\ Return(WaitResult(status))
    /\ UNCHANGED <<aside, interactive, installed, procs, next_id, tty, pending,
                   inHandler, op, cur, newjob, wpid, cursor,
                   printed>>

\* the Stopped report, the extraction of the exit code, and the caller's
\* assignment of the result
WfReturn ==
    /\ pc = "wf_ret" /\ ~inHandler
    /\ jobs' = IF CurJob.state = "Stopped"
               THEN [jobs EXCEPT ![job_find_by_id(jobs, cur)].notified = TRUE]
               ELSE jobs
    /\ Return(WaitResult(status))
    /\ UNCHANGED <<aside, interactive, installed, procs, next_id, tty, pending,
                   inHandler, op, cur, newjob, wpid, cursor,
                   printed>>

\* the command has returned to the read loop; the statuses of reaped
\* children are forgotten
CommandDone ==
    /\ pc = "done" /\ ~inHandler
    /\ pc' = "prompt"
    /\ op' = NoOp
    /\ cur' = 0
    /\ status' = 0
    /\ wpid' = 0
    /\ procs' = [p \in Pids |-> IF procs[p].st = "reaped"
                                THEN [procs[p] EXCEPT !.ws = 0]
                                ELSE procs[p]]
    /\ UNCHANGED <<aside, interactive, installed, jobs, next_id, tty, pending,
                   inHandler, newjob, cursor,
                   printed>>


\* ---- builtin_fg / builtin_bg ---------------------------------------------
\* parse_job_arg: arg 0 is "no argument" (the most recent job), any other
\* arg is a job number; the index of the job, 0 when there is none
parse_job_arg(arg) ==
    IF arg = 0 THEN job_most_recent(jobs) ELSE job_find_by_id(jobs, arg)

BuiltinFgBg(kind, arg) ==
    /\ AtPrompt
    /\ op' = [NoOp EXCEPT !.kind = kind]
    /\ IF parse_job_arg(arg) = 0
       THEN Return(1) /\ UNCHANGED cur
       ELSE /\ cur' = jobs[parse_job_arg(arg)].id
            /\ pc' = "cont_set"
            /\ UNCHANGED status
    /\ UNCHANGED <<aside, interactive, installed, procs, jobs, next_id, tty, pending,
                   inHandler, newjob, wpid, cursor, printed>>

\* job_continue_foreground / job_continue_background: the two assignments
ContinueSetState ==
    /\ pc = "cont_set" /\ ~inHandler
    /\ jobs' = [jobs EXCEPT ![job_find_by_id(jobs, cur)].state = "Running"]
    /\ pc' = "cont_kill"
    /\ UNCHANGED <<aside, interactive, installed, procs, next_id, tty, pending,
                   inHandler, op, cur, newjob, status, wpid, cursor, printed>>

\* kill(-job->pgid, SIGCONT), then job_wait_foreground or the bg report
ContinueKill ==
    /\ pc = "cont_kill" /\ ~inHandler
    /\ IF GroupMembers(CurJob.pgid) = {}
       THEN Return(-1) /\ UNCHANGED <<procs, pending>>
       ELSE /\ procs' = [p \in Pids |->
                   IF p \in GroupMembers(CurJob.pgid) /\ procs[p].st = "stopped"
                   THEN [procs[p] EXCEPT !.st = "running", !.rep = "cont"]
                   ELSE procs[p]]
            /\ pending' = (pending \/ (installed /\ ~SA_NOCLDSTOP
                                       /\ procs' # procs))
            /\ IF op.kind = "fg"
               THEN pc' = "wf_enter" /\ UNCHANGED status
               ELSE Return(0)
    /\ UNCHANGED <<aside, interactive, installed, jobs, next_id, tty, inHandler, op,
                   cur, newjob, wpid, cursor, printed>>

\* ---- job_check_background, at the top of the interactive prompt cycle ----
CheckBackground ==
    /\ pc = "prompt" /\ ~inHandler
    /\ interactive
    /\ pc' = "cb"
    /\ cursor' = 1
    /\ UNCHANGED <<aside, interactive, installed, procs, jobs, next_id, tty, pending,
                   inHandler, op, cur, newjob, status, wpid, printed>>

\* the scan without the test of the job's state
CheckBackgroundStep_no_state_test ==
    /\ pc = "cb" /\ ~inHandler
    /\ IF cursor > Len(jobs)
       THEN pc' = "prompt" /\ cursor' = 0 /\ UNCHANGED <<cur, printed>>
       ELSE IF ~jobs[cursor].notified
       THEN /\ printed' = jobs[cursor].id
            /\ cur' = jobs[cursor].id
            /\ pc' = "jr"
            /\ UNCHANGED cursor
       ELSE /\ cursor' = cursor + 1
            /\ UNCHANGED <<pc, cur, printed>>
    /\ UNCHANGED <<aside, interactive, installed, procs, jobs, next_id, tty, pending,
                   inHandler, op, newjob, status, wpid>>

\* one turn of the scan: the test, the status line and the call of job_remove
CheckBackgroundStep ==
    /\ pc = "cb" /\ ~inHandler
    /\ IF cursor > Len(jobs)
       THEN pc' = "prompt" /\ cursor' = 0 /\ UNCHANGED <<cur, printed>>
       ELSE IF jobs[cursor].state \in {"Done", "Killed"}
               /\ ~jobs[cursor].notified
       THEN /\ printed' = jobs[cursor].id
            /\ cur' = jobs[cursor].id
            /\ pc' = "jr"
            /\ UNCHANGED cursor
       ELSE /\ cursor' = cursor + 1
            /\ UNCHANGED <<pc, cur, printed>>
    /\ UNCHANGED <<aside, interactive, installed, procs, jobs, next_id, tty, pending,
                   inHandler, op, newjob, status, wpid>>

\* job_remove: unlink and free the node with this id; the scan goes on at
\* the saved next pointer, which is now at the same position
JobRemove ==
    /\ pc = "jr" /\ ~inHandler
    /\ jobs' = SelectSeq(jobs, LAMBDA j : j.id # cur)
    /\ cur' = 0
    /\ printed' = 0
    /\ pc' = "cb"
    /\ UNCHANGED <<aside, interactive, installed, procs, next_id, tty, pending,
                   inHandler, op, newjob, status, wpid, cursor>>

\* ---- shell_destroy -> job_table_destroy -----------------------------------
\* the read loop ends
Shutdown ==
    /\ pc = "prompt" /\ ~inHandler
    /\ pc' = "jd"
    /\ cursor' = 1
    /\ UNCHANGED <<aside, interactive, installed, procs, jobs, next_id, tty, pending,
                   inHandler, op, cur, newjob, status, wpid, printed>>

\* one turn of the loop up to the waitpid; after the last node, head = NULL
DestroyStep ==
    /\ pc = "jd" /\ ~inHandler
    /\ IF cursor > Len(jobs)
       THEN /\ jobs' = <<>>
            /\ pc' = "halt"
            /\ cursor' = 0
            /\ UNCHANGED <<procs, pending>>
       ELSE IF jobs[cursor].state \in {"Running", "Stopped"}
       THEN /\ procs' = Killed(GroupMembers(jobs[cursor].pgid), SIGKILL)
            /\ pending' = (pending \/ (installed /\ procs' # procs))
            /\ pc' = "jd_wait"
            /\ UNCHANGED <<jobs, cursor>>
       ELSE /\ cursor' = cursor + 1
            /\ UNCHANGED <<jobs, pc, procs, pending>>
    /\ UNCHANGED <<aside, interactive, installed, next_id, tty, inHandler, op, cur,
                   newjob, status, wpid, printed>>

\* waitpid(-j->pgid, NULL, 0), one call, and the three frees
DestroyWait ==
    /\ pc = "jd_wait" /\ ~inHandler
    /\ \/ \E p \in GroupMembers(jobs[cursor].pgid) :
            /\ Reportable(p, FALSE, FALSE)
            /\ procs' = Collect(p)
       \/ /\ GroupMembers(jobs[cursor].pgid) = {}
          /\ UNCHANGED procs
    /\ cursor' = cursor + 1
    /\ pc' = "jd"
    /\ UNCHANGED <<aside, interactive, installed, jobs, next_id, tty, pending,
                   inHandler, op, cur, newjob, status, wpid, printed>>

\* ---- sigchld_handler -------------------------------------------------------
\* delivery of the pending SIGCHLD between two statements of the main flow
HandlerEnter ==
    /\ installed /\ pending /\ ~inHandler
    /\ pc \notin {"halt", "crash"}
    /\ inHandler' = TRUE
    /\ pending' = FALSE
    /\ UNCHANGED <<aside, interactive, installed, procs, jobs, next_id, tty, pc, op,
                   cur, newjob, status, wpid, cursor, printed>>

\* one turn of the loop: waitpid(-1, WNOHANG | WUNTRACED | WCONTINUED) reports
\* child p and job_update_status runs.  When job_table_destroy has freed
\* nodes that are still linked, the list walk reads freed memory: it either
\* finds the old contents or faults.
HandlerReap(p) ==
    /\ inHandler
    /\ Reportable(p, TRUE, TRUE)
    /\ procs' = Collect(p)
    /\ \/ /\ jobs' = job_update_status(jobs, p, ReportedStatus(p))
          /\ UNCHANGED <<pc, inHandler>>
       \/ /\ FreedNodes # {}
          /\ pc' = "crash"
          /\ inHandler' = FALSE
          /\ UNCHANGED jobs
    /\ UNCHANGED <<aside, interactive, installed, next_id, tty, pending, op, cur,
                   newjob, status, wpid, cursor,
                   printed>>

\* waitpid finds nothing to report and the handler returns
HandlerReturn ==
    /\ inHandler
    /\ \A p \in Pids : ~Reportable(p, TRUE, TRUE)
    /\ inHandler' = FALSE
    /\ UNCHANGED <<aside, interactive, installed, procs, jobs, next_id, tty, pending,
                   pc, op, cur, newjob, status, wpid, cursor, printed>>

\* ---- the children ------------------------------------------------------------
\* the child of executor_exec_command up to child_reset_signals: it still
\* ignores SIGTTOU, so its tcsetpgrp(STDIN_FILENO, getpid()) succeeds
ChildBoot(p) ==
    /\ procs[p].st = "running" /\ procs[p].boot
    /\ procs' = [procs EXCEPT ![p].boot = FALSE]
    /\ tty' = IF interactive THEN procs[p].pgid ELSE tty
    /\ UNCHANGED <<aside, interactive, installed, jobs, next_id, pending, inHandler,
                   pc, op, cur, newjob, status, wpid, cursor, printed>>

\* a child exits or dies from a signal; the kernel raises SIGCHLD
ChildTerminate(p, ws) ==
    /\ procs[p].st = "running" /\ ~procs[p].boot
    /\ procs' = [procs EXCEPT ![p].st = "zombie", ![p].ws = ws,
                              ![p].rep = "none"]
    /\ pending' = (pending \/ installed)
    /\ UNCHANGED <<aside, interactive, installed, jobs, next_id, tty, inHandler, pc,
                   op, cur, newjob, status, wpid, cursor, printed>>

\* a child is stopped by a signal whose disposition child_reset_signals made
\* the default (SIGTSTP from the terminal, SIGTTIN/SIGTTOU for terminal
\* access or a tcsetpgrp from a background group); with SA_NOCLDSTOP the
\* kernel raises no SIGCHLD for it
ChildStop(p) ==
    /\ procs[p].st = "running" /\ ~procs[p].boot
    /\ procs' = [procs EXCEPT ![p].st = "stopped", ![p].rep = "stop"]
    /\ pending' = (pending \/ (installed /\ ~SA_NOCLDSTOP))
    /\ UNCHANGED <<aside, interactive, installed, jobs, next_id, tty, inHandler, pc,
                   op, cur, newjob, status, wpid, cursor, printed>>

Next ==
    \/ StartForeground
    \/ StartBackground
    \/ \E n \in 2..MaxPipe, neg \in BOOLEAN : StartPipeline(n, neg)
    \/ PipelineFork
    \/ PipelineTcsetpgrp
    \/ JobAddAlloc
    \/ JobAddLink
    \/ WfEnter
    \/ WfCheck
    \/ WfWaitpid
    \/ WfUpdate
    \/ WfRestore
    \/ WfReturn
    \/ CommandDone
    \/ \E kind \in {"fg", "bgcont"}, arg \in 0..MaxPid : BuiltinFgBg(kind, arg)
    \/ ContinueSetState
    \/ ContinueKill
    \/ CheckBackground
    \/ CheckBackgroundStep
    \/ JobRemove
    \/ Shutdown
    \/ DestroyStep
    \/ DestroyWait
    \/ HandlerEnter
    \/ \E p \in Pids : HandlerReap(p)
    \/ HandlerReturn
    \/ \E p \in Pids : ChildBoot(p)
    \/ \E p \in Pids, ws \in TermStatuses : ChildTerminate(p, ws)
    \/ \E p \in Pids : ChildStop(p)

Spec == Init /\ [][Next]_vars

\* the shell and its children keep taking steps while one is possible: the
\* main flow is never starved, and a user who can still type does
LiveSpec == Spec /\ WF_vars(Next)

\* ---- pipeline_execute at the level of file descriptors ---------------------
\* the job-control variables, which this view leaves alone
jobvars == <<interactive, installed, procs, jobs, next_id, tty, pending,
             inHandler, pc, op, cur, newjob, status, wpid, cursor, printed>>

\* what the fd-level view of pipeline_execute leaves alone
notpipe == <<jobvars, drvvars, syn, repl, disp, al, ar, ifx, ds>>

MaxCmds == 3

\* the two ends of pipe k: pipes[k][0] and pipes[k][1]
PipeEnds(k) == {<<k, 0>>, <<k, 1>>}

\* pipeline_execute is entered with a pipeline of n >= 2 commands
PlStart(n, neg) ==
    /\ pl.pc = "idle"
    /\ pl' = [PlIdle EXCEPT !.pc = "malloc_pipes", !.n = n, !.neg = neg]
    /\ UNCHANGED notpipe

\* int (*pipes)[2] = malloc(...): NULL returns 1
PlMallocPipes ==
    /\ pl.pc = "malloc_pipes"
    /\ \/ pl' = [pl EXCEPT !.pc = "ret", !.ret = 1]
       \/ pl' = [pl EXCEPT !.pc = "pipe", !.i = 0]
    /\ UNCHANGED notpipe

\* one turn of the pipe() loop: a failure closes the pipes opened so far
PlPipe ==
    /\ pl.pc = "pipe"
    /\ IF pl.i < pl.n - 1
       THEN \/ pl' = [pl EXCEPT !.pc = "ret", !.ret = 1, !.fds = {}]
            \/ pl' = [pl EXCEPT !.fds = pl.fds \cup PipeEnds(pl.i),
                                !.npipes = pl.npipes + 1,
                                !.i = pl.i + 1]
       ELSE pl' = [pl EXCEPT !.pc = "malloc_pids"]
    /\ UNCHANGED notpipe

\* pid_t *pids = malloc(...): NULL closes every pipe and returns 1
PlMallocPids ==
    /\ pl.pc = "malloc_pids"
    /\ \/ pl' = [pl EXCEPT !.pc = "ret", !.ret = 1, !.fds = {}]
       \/ pl' = [pl EXCEPT !.pc = "fork", !.i = 0]
    /\ UNCHANGED notpipe

\* one turn of the fork loop: a failure sends SIGTERM to the children
\* started so far, closes every pipe and returns 1; a success adds a child
\* that holds a copy of every pipe fd of the parent
PlFork ==
    /\ pl.pc = "fork"
    /\ IF pl.i < pl.n
       THEN \/ pl' = [pl EXCEPT
                        !.pc = "ret", !.ret = 1, !.fds = {},
                        !.kids = [k \in 1..Len(pl.kids) |->
                                     [pl.kids[k] EXCEPT !.st = "killed",
                                                        !.fds = {}]]]
            \/ pl' = [pl EXCEPT
                        !.kids = Append(pl.kids,
                                    [st |-> "forked", in |-> "tty",
                                     out |-> "tty", fds |-> pl.fds]),
                        !.i = pl.i + 1]
       ELSE pl' = [pl EXCEPT !.pc = "close", !.i = 0]
    /\ UNCHANGED notpipe

\* the forked child of command k (0-based k - 1): a dup2 fails and it exits,
\* or stdin and stdout are wired to the neighbouring pipes and every pipe fd
\* is closed before the command runs
PlChildWire(k) ==
    /\ k \in 1..Len(pl.kids)
    /\ pl.kids[k].st = "forked"
    /\ \/ /\ k > 1 \/ k < pl.n
          /\ pl' = [pl EXCEPT !.kids[k].st = "exited", !.kids[k].fds = {}]
       \/ pl' = [pl EXCEPT
                    !.kids[k].st = "exec",
                    !.kids[k].in = IF k > 1 THEN <<k - 2, 0>> ELSE "tty",
                    !.kids[k].out = IF k < pl.n THEN <<k - 1, 1>> ELSE "tty",
                    !.kids[k].fds = {}]
    /\ UNCHANGED notpipe

\* parent closing every pipe fd with all children forked, skipping the last
\* pipe
PlClose_skips_last ==
    /\ pl.pc = "close"
    /\ IF pl.i < pl.n - 2
       THEN pl' = [pl EXCEPT !.fds = pl.fds \ PipeEnds(pl.i), !.i = pl.i + 1]
       ELSE pl' = [pl EXCEPT !.pc = "wait"]
    /\ UNCHANGED notpipe

\* "Parent: close all pipe fds", one turn of the loop
PlClose ==
    /\ pl.pc = "close"
    /\ IF pl.i < pl.n - 1
       THEN pl' = [pl EXCEPT !.fds = pl.fds \ PipeEnds(pl.i), !.i = pl.i + 1]
       ELSE pl' = [pl EXCEPT !.pc = "wait"]
    /\ UNCHANGED notpipe

\* tcsetpgrp, job_add and job_wait_foreground, whose result v is negated
\* for a `!` pipeline
PlWait(v) ==
    /\ pl.pc = "wait"
    /\ pl' = [pl EXCEPT !.pc = "ret",
                        !.ret = IF pl.neg THEN (IF v = 0 THEN 1 ELSE 0)
                                ELSE v]
    /\ UNCHANGED notpipe

\* pipeline_execute returns; the next pipeline starts from scratch
PlReturn ==
    /\ pl.pc = "ret"
    /\ pl' = PlIdle
    /\ UNCHANGED notpipe

PipeInit == Init /\ ~interactive /\ ~installed

PipeNext ==
    \/ \E n \in 2..MaxCmds, neg \in BOOLEAN : PlStart(n, neg)
    \/ PlMallocPipes
    \/ PlPipe
    \/ PlMallocPids
    \/ PlFork
    \/ \E k \in 1..MaxCmds : PlChildWire(k)
    \/ PlClose
    \/ \E v \in ExitCodes : PlWait(v)
    \/ PlReturn

PipeSpec == PipeInit /\ [][PipeNext]_vars

\* ---- the driver: shell_exec_line, the executor's walk, source, functions ---
\* what the driver view leaves alone
notdrv == <<jobvars, pl, syn, repl, disp, al, ar, ifx, ds>>

MaxLineLen == 2
MaxGen == 2

\* a command line as the executor sees it: the commands of a `;` sequence,
\* each an ordinary command, a `source FILE` or a function definition
Kinds == {"cmd", "source", "func"}
Lines == UNION {[1..n -> Kinds] : n \in 1..MaxLineLen}

StageOrder == <<"history_expand", "history_add", "alias_expand",
                "arena_reset", "lex", "parse", "execute">>

\* a fresh activation of shell_exec_line on line l
NewFrame(l) == [line |-> l, pc |-> "hist", pos |-> 0, gen |-> -1,
                stages |-> <<>>]

Top == frames[Len(frames)]
SetTop(f) == [frames EXCEPT ![Len(frames)] = f]
Pop == SubSeq(frames, 1, Len(frames) - 1)
InFrame(where) == frames # <<>> /\ Top.pc = where

\* shell_run / main hand a line to shell_exec_line (MaxGen caps the number
\* of lines, top-level or sourced, that reset the arena in one run)
DrvSubmit(l) ==
    /\ frames = <<>>
    /\ arena_gen < MaxGen
    /\ frames' = <<NewFrame(l)>>
    /\ UNCHANGED <<arena_gen, fn_body, last_status, notdrv>>

\* shell_exec_line going from history expansion straight to alias expansion
DrvHistExpand_skips_record ==
    /\ InFrame("hist")
    /\ \/ frames' = Pop
       \/ frames' = SetTop([Top EXCEPT
                              !.pc = "alias",
                              !.stages = Append(@, "history_expand")])
    /\ UNCHANGED <<arena_gen, fn_body, last_status, notdrv>>

\* expand_history: NULL (event not found) returns at once
DrvHistExpand ==
    /\ InFrame("hist")
    /\ \/ frames' = Pop
       \/ frames' = SetTop([Top EXCEPT
                              !.pc = "record",
                              !.stages = Append(@, "history_expand")])
    /\ UNCHANGED <<arena_gen, fn_body, last_status, notdrv>>

\* history_add of the expanded line
DrvHistAdd ==
    /\ InFrame("record")
    /\ frames' = SetTop([Top EXCEPT !.pc = "alias",
                                    !.stages = Append(@, "history_add")])
    /\ UNCHANGED <<arena_gen, fn_body, last_status, notdrv>>

\* expand_aliases: NULL returns at once
DrvAlias ==
    /\ InFrame("alias")
    /\ \/ frames' = Pop
       \/ frames' = SetTop([Top EXCEPT
                              !.pc = "reset",
                              !.stages = Append(@, "alias_expand")])
    /\ UNCHANGED <<arena_gen, fn_body, last_status, notdrv>>

\* arena_reset(shell->parse_arena): everything allocated before is gone;
\* what this activation allocates from now on is of the new generation
DrvArenaReset ==
    /\ InFrame("reset")
    /\ arena_gen' = arena_gen + 1
    /\ frames' = SetTop([Top EXCEPT !.pc = "lex", !.gen = arena_gen + 1,
                                    !.stages = Append(@, "arena_reset")])
    /\ UNCHANGED <<fn_body, last_status, notdrv>>

\* lexer_init, lexer_tokenize: a lex error sets last_status to 2
DrvLex ==
    /\ InFrame("lex")
    /\ \/ frames' = Pop /\ last_status' = 2
       \/ /\ frames' = SetTop([Top EXCEPT !.pc = "parse",
                                          !.stages = Append(@, "lex")])
          /\ UNCHANGED last_status
    /\ UNCHANGED <<arena_gen, fn_body, notdrv>>

\* parser_init, parser_parse: a parse error sets last_status to 2
DrvParse ==
    /\ InFrame("parse")
    /\ \/ frames' = Pop /\ last_status' = 2
       \/ /\ frames' = SetTop([Top EXCEPT !.pc = "exec", !.pos = 1,
                                          !.stages = Append(@, "parse")])
          /\ UNCHANGED last_status
    /\ UNCHANGED <<arena_gen, fn_body, notdrv>>

\* executor_execute reaches the next command of the sequence.  A node of a
\* generation the arena has left is read from reset memory: it may hold
\* any node, or the read faults.
DrvExecNode ==
    /\ InFrame("exec")
    /\ Top.pos <= Len(Top.line)
    /\ \E kind \in (IF Top.gen = arena_gen THEN {Top.line[Top.pos]}
                    ELSE Kinds \cup {"fault"}) :
          LET ran == [Top EXCEPT
                        !.pos = @ + 1,
                        !.stages = IF Top.pos = 1 THEN Append(@, "execute")
                                   ELSE @]
          IN  \/ /\ kind = "cmd"
                 /\ \E v \in ExitCodes : last_status' = v
                 /\ frames' = SetTop(ran)
                 /\ UNCHANGED fn_body
              \/ /\ kind = "func"
                 /\ fn_body' = Top.gen
                 /\ last_status' = 0
                 /\ frames' = SetTop(ran)
              \/ /\ kind = "source"
                 /\ \/ /\ last_status' = 1
                       /\ frames' = SetTop(ran)
                    \/ /\ frames' = SetTop([ran EXCEPT !.pc = "source",
                                                       !.pos = Top.pos])
                       /\ UNCHANGED last_status
                 /\ UNCHANGED fn_body
              \/ /\ kind = "fault"
                 /\ frames' = <<[Top EXCEPT !.pc = "crash"]>>
                 /\ UNCHANGED <<fn_body, last_status>>
    /\ UNCHANGED <<arena_gen, notdrv>>

\* builtin_source's getline loop: end of file returns to the executor, a
\* line is handed to shell_exec_line
DrvSourceLine ==
    /\ InFrame("source")
    /\ \/ frames' = SetTop([Top EXCEPT !.pc = "exec", !.pos = @ + 1])
       \/ /\ arena_gen < MaxGen
          /\ \E l \in Lines : frames' = Append(frames, NewFrame(l))
    /\ UNCHANGED <<arena_gen, fn_body, last_status, notdrv>>

\* executor_execute has returned: shell_exec_line returns last_status
DrvReturn ==
    /\ InFrame("exec")
    /\ Top.pos > Len(Top.line)
    /\ frames' = Pop
    /\ UNCHANGED <<arena_gen, fn_body, last_status, notdrv>>

DrvInit == Init /\ ~interactive /\ ~installed

DrvNext ==
    \/ \E l \in Lines : DrvSubmit(l)
    \/ DrvHistExpand
    \/ DrvHistAdd
    \/ DrvAlias
    \/ DrvArenaReset
    \/ DrvLex
    \/ DrvParse
    \/ DrvExecNode
    \/ DrvSourceLine
    \/ DrvReturn

DrvSpec == DrvInit /\ [][DrvNext]_vars

\* ---- the lexer, the parser and the execution of a simple command -----------
\* what the syntax view leaves alone
notsyn == <<jobvars, pl, drvvars, repl, disp, al, ar, ifx, ds>>

MaxFrags == 5

\* Input lines are made of these pieces: single characters, and the two
\* descriptor duplications written out.  A character is a one-letter string
\* and a C string a sequence of characters.  Neither this alphabet nor
\* ExpFrags nor EscFrags spells a comment, parenthesis, '!', ';', '~', '['
\* or '*', a brace outside quotes, or a newline that is not behind a
\* backslash or inside quotes, so the branches of the lexer, the parser and
\* expand_word that need one of those are not reached and are left out.
Frags == { <<"a">>, <<" ">>, <<"'">>, <<">">>, <<"<">>, <<"|">>, <<"=">>,
           <<"1">>, <<"2", ">", "&", "1">>, <<"2", "<", "&", "1">> }

\* the '\0' that lex_cur and lex_peek return past the end of the input
NUL == "NUL"

isdigit(c) == c \in {"0", "1", "2", "3", "4", "5", "6", "7", "8", "9"}

\* c - '0' for a digit, and atoi of a string (0 when it starts with no digit)
DigitVal(c) == CASE c = "0" -> 0 [] c = "1" -> 1 [] c = "2" -> 2 [] c = "3" -> 3
                 [] c = "4" -> 4 [] c = "5" -> 5 [] c = "6" -> 6 [] c = "7" -> 7
                 [] c = "8" -> 8 [] c = "9" -> 9

RECURSIVE AtoiLoop(_, _)
AtoiLoop(s, acc) ==
    IF s # <<>> /\ isdigit(Head(s)) THEN AtoiLoop(Tail(s), 10 * acc + DigitVal(Head(s)))
    ELSE acc

atoi(s) == AtoiLoop(s, 0)

lex_cur(in, pos) == IF pos >= Len(in) THEN NUL ELSE in[pos + 1]

lex_peek(in, pos, n) ==
    IF pos + n >= Len(in) \/ pos + n < 0 THEN NUL ELSE in[pos + n + 1]

RECURSIVE skip_whitespace(_, _)
skip_whitespace(in, pos) ==
    IF pos < Len(in) /\ in[pos + 1] = " " THEN skip_whitespace(in, pos + 1)
    ELSE pos

make_token(type, value) == [type |-> type, value |-> value, redir_fd |-> -1]

\* the characters of the input pieces at which build_word stops a word (a brace
\* of the pieces is only ever met inside quotes)
WordBreak == {" ", "|", "&", ">", "<"}

\* the inner loop of a single-quoted section: where it stops and what it read
RECURSIVE SingleQuoted(_, _, _)
SingleQuoted(in, pos, buf) ==
    IF pos < Len(in) /\ in[pos + 1] # "'"
    THEN SingleQuoted(in, pos + 1, Append(buf, in[pos + 1]))
    ELSE [pos |-> pos, buf |-> buf]

\* the inner loop of a double-quoted section, without its backslash branch
RECURSIVE DoubleQuoted(_, _, _)
DoubleQuoted(in, pos, buf) ==
    IF pos < Len(in) /\ in[pos + 1] # "\""
    THEN DoubleQuoted(in, pos + 1, Append(buf, in[pos + 1]))
    ELSE [pos |-> pos, buf |-> buf]

\* the while loop of build_word
RECURSIVE WordLoop(_, _, _)
WordLoop(in, pos, buf) ==
    IF pos >= Len(in) THEN [pos |-> pos, buf |-> buf, error |-> ""]
    ELSE LET c == in[pos + 1] IN
         IF c = "'"
         THEN LET q == SingleQuoted(in, pos + 1, buf) IN
              IF q.pos >= Len(in)
              THEN [pos |-> q.pos, buf |-> q.buf,
                    error |-> "unterminated single quote"]
              ELSE WordLoop(in, q.pos + 1, q.buf)
         ELSE IF c = "\""
         THEN LET q == DoubleQuoted(in, pos + 1, buf) IN
              IF q.pos >= Len(in)
              THEN [pos |-> q.pos, buf |-> q.buf,
                    error |-> "unterminated double quote"]
              ELSE WordLoop(in, q.pos + 1, q.buf)
         ELSE IF c = "\\"
         THEN IF lex_peek(in, pos, 1) = "\n" THEN WordLoop(in, pos + 2, buf)
              ELSE IF lex_peek(in, pos, 1) = NUL
              THEN [pos |-> pos + 1, buf |-> Append(buf, "\\"), error |-> ""]
              ELSE WordLoop(in, pos + 2, Append(buf, in[pos + 2]))
         ELSE IF c \in WordBreak
         THEN [pos |-> pos, buf |-> buf, error |-> ""]
         ELSE WordLoop(in, pos + 1, Append(buf, c))

\* the keywords table: each name with the token type it stands for
keywords ==
    { [name |-> <<"i", "f">>, type |-> "IF"],
      [name |-> <<"t", "h", "e", "n">>, type |-> "THEN"],
      [name |-> <<"e", "l", "i", "f">>, type |-> "ELIF"],
      [name |-> <<"e", "l", "s", "e">>, type |-> "ELSE"],
      [name |-> <<"f", "i">>, type |-> "FI"],
      [name |-> <<"w", "h", "i", "l", "e">>, type |-> "WHILE"],
      [name |-> <<"f", "o", "r">>, type |-> "FOR"],
      [name |-> <<"d", "o">>, type |-> "DO"],
      [name |-> <<"d", "o", "n", "e">>, type |-> "DONE"],
      [name |-> <<"i", "n">>, type |-> "IN"],
      [name |-> <<"f", "u", "n", "c", "t", "i", "o", "n">>,
       type |-> "FUNCTION"],
      [name |-> <<"r", "e", "t", "u", "r", "n">>, type |-> "RETURN"],
      [name |-> <<"l", "o", "c", "a", "l">>, type |-> "LOCAL"] }

check_keyword(word) ==
    IF \E kw \in keywords : kw.name = word
    THEN (CHOOSE kw \in keywords : kw.name = word).type
    ELSE "WORD"

build_word(in, pos) ==
    LET w == WordLoop(in, pos, <<>>) IN
    [tok |-> make_token(check_keyword(w.buf), w.buf), pos |-> w.pos,
     error |-> w.error]

\* the loop that captures what follows ">&"
RECURSIVE DupVal(_, _, _)
DupVal(in, pos, buf) ==
    IF pos < Len(in) /\ in[pos + 1] \notin {" ", "|", "&", ";"}
    THEN DupVal(in, pos + 1, Append(buf, in[pos + 1]))
    ELSE [pos |-> pos, buf |-> buf]

lexer_next(in, pos0) ==
    LET pos == skip_whitespace(in, pos0)
        c == lex_cur(in, pos)
        n1 == lex_peek(in, pos, 1)
        n2 == lex_peek(in, pos, 2)
        Tok(type, value, fd, np) ==
            [tok |-> [make_token(type, value) EXCEPT !.redir_fd = fd],
             pos |-> np, error |-> ""]
    IN
    IF pos >= Len(in) THEN Tok("EOF", <<>>, -1, pos)
    ELSE IF isdigit(c) /\ n1 \in {">", "<"}
    THEN IF n1 = ">"
         THEN IF n2 = ">" THEN Tok("REDIR_APPEND", <<">", ">">>, DigitVal(c), pos + 3)
              ELSE IF n2 = "&"
              THEN LET d == DupVal(in, pos + 3, <<>>) IN
                   Tok("REDIR_DUP", d.buf, DigitVal(c), d.pos)
              ELSE Tok("REDIR_OUT", <<">">>, DigitVal(c), pos + 2)
         ELSE IF n2 = "<" THEN Tok("REDIR_HEREDOC", <<"<", "<">>, DigitVal(c), pos + 3)
              ELSE Tok("REDIR_IN", <<"<">>, DigitVal(c), pos + 2)
    ELSE IF c = "|" /\ n1 = "|" THEN Tok("OR", <<"|", "|">>, -1, pos + 2)
    ELSE IF c = "&" /\ n1 = "&" THEN Tok("AND", <<"&", "&">>, -1, pos + 2)
    ELSE IF c = ">" /\ n1 = ">" THEN Tok("REDIR_APPEND", <<">", ">">>, -1, pos + 2)
    ELSE IF c = "<" /\ n1 = "<" THEN Tok("REDIR_HEREDOC", <<"<", "<">>, -1, pos + 2)
    ELSE IF c = "|" THEN Tok("PIPE", <<"|">>, -1, pos + 1)
    ELSE IF c = "&" THEN Tok("AMP", <<"&">>, -1, pos + 1)
    ELSE IF c = ">" THEN Tok("REDIR_OUT", <<">">>, -1, pos + 1)
    ELSE IF c = "<" THEN Tok("REDIR_IN", <<"<">>, -1, pos + 1)
    ELSE build_word(in, pos)

\* the for loop of lexer_tokenize: the list, and lex->error ("" is NULL)
RECURSIVE TokLoop(_, _, _)
TokLoop(in, pos, list) ==
    LET r == lexer_next(in, pos) IN
    IF r.tok.type = "EOF" \/ r.error # ""
    THEN [tokens |-> Append(list, r.tok), error |-> r.error]
    ELSE TokLoop(in, r.pos, Append(list, r.tok))

lexer_tokenize(in) == TokLoop(in, 0, <<>>)

\* ---- parser.c --------------------------------------------------------------
\* The Parser is [pos, had_error, error]; `diverged` is set when a loop of the
\* parser cannot end (it then returns nothing at all).  The token list is T.
NewParser == [pos |-> 0, had_error |-> FALSE, error |-> "", diverged |-> FALSE]

cur_token(T, P) == IF P.pos >= Len(T) THEN T[Len(T)] ELSE T[P.pos + 1]

advance(T, P) == IF P.pos < Len(T) THEN [P EXCEPT !.pos = @ + 1] ELSE P

check(T, P, type) == cur_token(T, P).type = type

\* the message without its line and column prefix; the first error is kept
parser_error_at(P, msg) ==
    IF P.had_error THEN P ELSE [P EXCEPT !.had_error = TRUE, !.error = msg]

is_redir(t) ==
    t \in {"REDIR_IN", "REDIR_OUT", "REDIR_APPEND", "REDIR_HEREDOC", "REDIR_DUP"}

at_command_start(T, P) ==
    LET t == cur_token(T, P).type IN
    t \in {"WORD", "IF", "WHILE", "FOR", "LBRACE", "LPAREN", "FUNCTION", "BANG"}
    \/ is_redir(t)

\* a parse function stopped for good: on an error, or by never returning
Stopped(P) == P.had_error \/ P.diverged

\* cmd->redirs is the chain from its head
parse_redirection(T, P, cmd) ==
    LET optok == cur_token(T, P)
        P1 == advance(T, P)
        dup_in == optok.value # <<>> /\ optok.value[1] = "<"
        rtype == CASE optok.type = "REDIR_IN" -> "REDIR_INPUT"
                   [] optok.type = "REDIR_OUT" -> "REDIR_OUTPUT"
                   [] optok.type = "REDIR_APPEND" -> "REDIR_APPEND"
                   [] optok.type = "REDIR_HEREDOC" -> "REDIR_HEREDOC"
                   [] optok.type = "REDIR_DUP" ->
                          IF dup_in THEN "REDIR_DUP_IN" ELSE "REDIR_DUP_OUT"
        default_fd == IF optok.type \in {"REDIR_IN", "REDIR_HEREDOC"}
                         \/ (optok.type = "REDIR_DUP" /\ dup_in)
                      THEN 0 ELSE 1
        target == cur_token(T, P1)
        redir == [type |-> rtype,
                  fd |-> IF optok.redir_fd >= 0 THEN optok.redir_fd ELSE default_fd,
                  target |-> target.value]
    IN
    IF target.type # "WORD"
    THEN [P |-> parser_error_at(P1, "expected 'WORD'"), cmd |-> cmd]
    ELSE [P |-> advance(T, P1), cmd |-> [cmd EXCEPT !.redirs = <<redir>> \o @]]

\* make_command_node: calloc leaves assignments empty and nassign 0
make_command_node ==
    [type |-> "COMMAND", argv |-> <<>>, redirs |-> <<>>, assignments |-> <<>>,
     kids |-> <<>>]

make_node(type, kids) ==
    [type |-> type, argv |-> <<>>, redirs |-> <<>>, assignments |-> <<>>,
     kids |-> kids]

\* the while loop of parse_simple_cmd.  Once pos has reached the end of a
\* list whose last token is a WORD, cur_token keeps returning that WORD and
\* advance no longer moves: the loop appends to argv until the arena is
\* exhausted and the process faults, and parser_parse never returns.
RECURSIVE SimpleLoop(_, _, _)
SimpleLoop(T, P, cmd) ==
    IF P.had_error THEN [P |-> P, cmd |-> cmd]
    ELSE LET tok == cur_token(T, P) IN
         IF is_redir(tok.type)
         THEN LET r == parse_redirection(T, P, cmd) IN SimpleLoop(T, r.P, r.cmd)
         ELSE IF tok.type = "WORD"
         THEN IF P.pos >= Len(T)
              THEN [P |-> [P EXCEPT !.diverged = TRUE], cmd |-> cmd]
              ELSE SimpleLoop(T, advance(T, P),
                              [cmd EXCEPT !.argv = Append(@, tok.value)])
         ELSE [P |-> P, cmd |-> cmd]

\* what parse_simple_cmd returns once its loop has left r
SimpleCmdOf(r) ==
    IF r.P.diverged THEN [P |-> r.P, node |-> NoNode]
    ELSE IF r.cmd.argv = <<>> /\ r.cmd.redirs = <<>>
    THEN [P |-> parser_error_at(r.P, "expected a command"), node |-> NoNode]
    ELSE [P |-> r.P, node |-> r.cmd]

parse_simple_cmd(T, P) == SimpleCmdOf(SimpleLoop(T, P, make_command_node))

parse_command(T, P) ==
    IF cur_token(T, P).type = "WORD" \/ is_redir(cur_token(T, P).type)
    THEN parse_simple_cmd(T, P)
    ELSE [P |-> parser_error_at(P, "unexpected token"), node |-> NoNode]

\* the while (match(parser, TOK_PIPE)) loop of parse_pipeline; r is what
\* parse_command returned for the command after the '|'
RECURSIVE PipeLoop(_, _, _), PipeNextCmd(_, _, _)
PipeNextCmd(T, r, cmds) ==
    IF Stopped(r.P) THEN [P |-> r.P, cmds |-> <<>>]
    ELSE PipeLoop(T, r.P, Append(cmds, r.node))

PipeLoop(T, P, cmds) ==
    IF check(T, P, "PIPE")
    THEN PipeNextCmd(T, parse_command(T, advance(T, P)), cmds)
    ELSE [P |-> P, cmds |-> cmds]

\* parse_pipeline after its loop has left l
PipelineOf(l) ==
    IF Stopped(l.P) THEN [P |-> l.P, node |-> NoNode]
    ELSE [P |-> l.P, node |-> make_node("PIPELINE", l.cmds)]

\* parse_pipeline after parse_command returned `first`: never negated, as
\* no '!' is entered
PipelineFrom(T, first) ==
    IF Stopped(first.P) THEN [P |-> first.P, node |-> NoNode]
    ELSE IF ~check(T, first.P, "PIPE") THEN first
    ELSE PipelineOf(PipeLoop(T, first.P, <<first.node>>))

parse_pipeline(T, P) == PipelineFrom(T, parse_command(T, P))

\* the for (;;) loop of parse_list, `left` being the list so far.  After an
\* operator, at P1: the pipeline at its right, if one starts there, is joined
\* to l as a node of the given type; r is what parse_pipeline returned.
RECURSIVE ListLoop(_, _, _), ListRight(_, _, _, _), ListJoin(_, _, _, _)
ListJoin(T, r, type, l) ==
    IF Stopped(r.P) THEN [P |-> r.P, node |-> NoNode]
    ELSE ListLoop(T, r.P, make_node(type, <<l, r.node>>))

ListRight(T, P1, type, l) ==
    IF ~at_command_start(T, P1) THEN [P |-> P1, node |-> l]
    ELSE ListJoin(T, parse_pipeline(T, P1), type, l)

ListLoop(T, P, left) ==
    IF check(T, P, "AND") THEN ListRight(T, advance(T, P), "AND", left)
    ELSE IF check(T, P, "OR") THEN ListRight(T, advance(T, P), "OR", left)
    ELSE IF check(T, P, "AMP")
    THEN ListRight(T, advance(T, P), "SEQUENCE",
                   make_node("BACKGROUND", <<left>>))
    ELSE [P |-> P, node |-> left]

\* parse_list after its first parse_pipeline returned l
ListFrom(T, l) ==
    IF Stopped(l.P) THEN [P |-> l.P, node |-> NoNode]
    ELSE ListLoop(T, l.P, l.node)

parse_list(T, P) ==
    IF ~at_command_start(T, P) THEN [P |-> P, node |-> NoNode]
    ELSE ListFrom(T, parse_pipeline(T, P))

\* parse_program after parse_list returned r (or was not called)
ProgramEnd(T, r) ==
    IF r.P.diverged THEN r
    ELSE IF r.P.had_error THEN [P |-> r.P, node |-> NoNode]
    ELSE IF ~check(T, r.P, "EOF")
    THEN [P |-> parser_error_at(r.P, "unexpected token after end of command"),
          node |-> NoNode]
    ELSE r

parse_program(T) ==
    IF check(T, NewParser, "EOF")
    THEN ProgramEnd(T, [P |-> NewParser, node |-> NoNode])
    ELSE ProgramEnd(T, parse_list(T, NewParser))

\* ---- env.c and the execution of a simple command ---------------------------
\* the letters among the characters of the input pieces
isalpha(c) == c \in {"a", "c", "e", "h", "i", "n", "o"}

isalnum(c) == isalpha(c) \/ isdigit(c)

\* index of the first c in s from i on, 0 when there is none
RECURSIVE strchr(_, _, _)
strchr(s, c, i) ==
    IF i > Len(s) THEN 0 ELSE IF s[i] = c THEN i ELSE strchr(s, c, i + 1)

env_parse_assignment(str) ==
    LET eq == strchr(str, "=", 1)
        no == [ok |-> FALSE, key |-> <<>>, value |-> <<>>]
    IN
    IF eq = 0 \/ eq = 1 THEN no
    ELSE IF ~(isalpha(str[1]) \/ str[1] = "_") THEN no
    ELSE IF \E i \in 2..(eq - 1) :
                ~(isalpha(str[i]) \/ isdigit(str[i]) \/ str[i] = "_") THEN no
    ELSE [ok |-> TRUE, key |-> SubSeq(str, 1, eq - 1),
          value |-> SubSeq(str, eq + 1, Len(str))]

\* the table as the set of its entries, one per key
env_set(env, key, value, exported) ==
    {e \in env : e.key # key}
        \cup {[key |-> key, value |-> value, exported |-> exported]}

\* the loop over cmd->assignments; env_expand leaves a value without '$' as
\* it is
RECURSIVE ApplyAssignments(_, _, _)
ApplyAssignments(env, as, exported) ==
    IF as = <<>> THEN env
    ELSE LET a == env_parse_assignment(Head(as)) IN
         ApplyAssignments(IF a.ok THEN env_set(env, a.key, a.value, exported)
                          ELSE env,
                          Tail(as), exported)

\* env_get: whether the key has an entry, and its value
env_get(env, key) ==
    IF \E e \in env : e.key = key
    THEN [set |-> TRUE, value |-> (CHOOSE e \in env : e.key = key).value]
    ELSE [set |-> FALSE, value |-> <<>>]

\* what "%d" prints for shell->shell_pid, one process id standing for all
ShellPidText == <<"7">>

\* Positions in a word count from 1; one past its length is its '\0'.  An
\* expansion in progress is X = [out, stderr, env]: the result so far, the
\* lines written to stderr, and the table.
RECURSIVE read_brace_body(_, _, _, _)
read_brace_body(s, p, depth, out) ==
    IF p > Len(s) THEN [p |-> p, out |-> out]
    ELSE IF s[p] = "$" /\ p < Len(s) /\ s[p + 1] = "{"
    THEN read_brace_body(s, p + 2, depth + 1, out \o <<"$", "{">>)
    ELSE IF s[p] = "}"
    THEN IF depth = 0 THEN [p |-> p, out |-> out]
         ELSE read_brace_body(s, p + 1, depth - 1, Append(out, "}"))
    ELSE read_brace_body(s, p + 1, depth, Append(out, s[p]))

\* the end of the variable name inside the braces
RECURSIVE BraceNameEnd(_, _)
BraceNameEnd(s, p) ==
    IF p <= Len(s) /\ s[p] \notin {"}", ":"} THEN BraceNameEnd(s, p + 1) ELSE p

\* past the closing brace when there is one at p
SkipBrace(s, p) == IF p <= Len(s) /\ s[p] = "}" THEN p + 1 ELSE p

expand_brace(s, p, X) ==
    LET q == BraceNameEnd(s, p)
        varname == SubSeq(s, p, q - 1)
        val == env_get(X.env, varname)
        unset == ~val.set \/ val.value = <<>>
        body == read_brace_body(s, q + 2, 0, <<>>)
        opch == s[q + 1]
    IN
    IF q < Len(s) /\ s[q] = ":"
    THEN [p |-> SkipBrace(s, body.p),
          X |-> CASE opch = "-" ->
                       [X EXCEPT !.out = @ \o (IF unset THEN body.out
                                                         ELSE val.value)]
                  [] opch = "=" ->
                       IF unset
                       THEN [X EXCEPT !.out = @ \o body.out,
                                      !.env = env_set(@, varname, body.out,
                                                      FALSE)]
                       ELSE [X EXCEPT !.out = @ \o val.value]
                  [] opch = "+" ->
                       IF unset THEN X ELSE [X EXCEPT !.out = @ \o body.out]
                  [] opch = "?" ->
                       IF unset
                       THEN [X EXCEPT !.stderr = Append(@,
                                [varname |-> varname,
                                 text |-> IF body.out = <<>>
                                          THEN <<"parameter null or not set">>
                                          ELSE body.out])]
                       ELSE [X EXCEPT !.out = @ \o val.value]
                  [] OTHER -> [X EXCEPT !.out = @ \o val.value]]
    ELSE [p |-> SkipBrace(s, q), X |-> [X EXCEPT !.out = @ \o val.value]]

\* the end of a $VAR name
RECURSIVE VarNameEnd(_, _)
VarNameEnd(s, p) ==
    IF p <= Len(s) /\ (isalnum(s[p]) \/ s[p] = "_") THEN VarNameEnd(s, p + 1)
    ELSE p

\* the while loop of env_expand from position p on.  The pieces put none of
\* '?', '#', '!' or a digit right behind a '$'.
RECURSIVE ExpandLoop(_, _, _), ExpandBraced(_, _)
ExpandBraced(s, r) == ExpandLoop(s, r.p, r.X)

ExpandLoop(s, p, X) ==
    IF p > Len(s) THEN X
    ELSE IF s[p] # "$" THEN ExpandLoop(s, p + 1, [X EXCEPT !.out = Append(@, s[p])])
    ELSE IF p = Len(s) THEN [X EXCEPT !.out = Append(@, "$")]
    ELSE IF s[p + 1] = "$"
    THEN ExpandLoop(s, p + 2, [X EXCEPT !.out = @ \o ShellPidText])
    ELSE IF s[p + 1] = "{" THEN ExpandBraced(s, expand_brace(s, p + 2, X))
    ELSE IF isalpha(s[p + 1]) \/ s[p + 1] = "_"
    THEN ExpandLoop(s, VarNameEnd(s, p + 1),
                    [X EXCEPT !.out = @ \o env_get(X.env,
                         SubSeq(s, p + 1, VarNameEnd(s, p + 1) - 1)).value])
    ELSE ExpandLoop(s, p + 2, [X EXCEPT !.out = @ \o <<"$", s[p + 1]>>])

\* env_expand on one word with the table and stderr of X
env_expand(s, X) == ExpandLoop(s, 1, [X EXCEPT !.out = <<>>])

\* wildcard_has_magic, without its backslash branch
wildcard_has_magic(s) == \E i \in 1..Len(s) : s[i] \in {"*", "?", "["}

\* the one file name that stands for whatever wildcard_expand matched
GlobMatch == <<"f">>

\* the loop over cmd->argv of executor_exec_command with expand_word in it:
\* X.argv collects the words; hits are the argument positions whose pattern
\* matched a file
RECURSIVE ExpandArgs(_, _, _, _), ExpandedWord(_, _, _, _)
ExpandedWord(words, i, hits, X) ==
    ExpandArgs(words, i + 1, hits,
               [X EXCEPT !.argv = Append(@,
                    IF wildcard_has_magic(X.out) /\ i \in hits
                    THEN GlobMatch ELSE X.out)])

ExpandArgs(words, i, hits, X) ==
    IF i > Len(words) THEN X
    ELSE ExpandedWord(words, i, hits, env_expand(words[i], X))

\* builtin_table
builtin_names ==
    { <<"c", "d">>, <<"e", "x", "i", "t">>, <<"h", "e", "l", "p">>,
      <<"e", "x", "p", "o", "r", "t">>, <<"u", "n", "s", "e", "t">>,
      <<"a", "l", "i", "a", "s">>, <<"u", "n", "a", "l", "i", "a", "s">>,
      <<"h", "i", "s", "t", "o", "r", "y">>, <<"j", "o", "b", "s">>,
      <<"f", "g">>, <<"b", "g">>, <<"s", "o", "u", "r", "c", "e">>, <<".">>,
      <<"s", "y", "s", "i", "n", "f", "o">>,
      <<"h", "t", "t", "p", "f", "e", "t", "c", "h">>, <<"c", "a", "l", "c">>,
      <<"w", "a", "t", "c", "h">>, <<"p", "u", "s", "h", "d">>,
      <<"p", "o", "p", "d">>, <<"d", "i", "r", "s">>,
      <<"c", "o", "l", "o", "r", "s">>, <<"p", "w", "d">>,
      <<"e", "c", "h", "o">>, <<"t", "y", "p", "e">>,
      <<"r", "e", "t", "u", "r", "n">>, <<"l", "o", "c", "a", "l">> }

builtins_is_builtin(name) == name \in builtin_names

\* the descriptor open returns in a child that holds 0, 1 and 2
OpenedFd == 3

\* the exit status of a child whose execve and execvp both failed with ENOENT
ENOENT_STATUS == 127

\* the line grows by one piece while it is being entered
SynType(f) ==
    /\ syn.pc = "idle"
    /\ syn.nfrags < MaxFrags
    /\ syn' = [syn EXCEPT !.input = @ \o f, !.nfrags = @ + 1]
    /\ UNCHANGED notsyn

\* lexer_init on the line entered
SynSubmit ==
    /\ syn.pc = "idle"
    /\ syn' = [syn EXCEPT !.pc = "line"]
    /\ UNCHANGED notsyn

SynTokenize ==
    /\ syn.pc = "line"
    /\ LET r == lexer_tokenize(syn.input) IN
       syn' = [syn EXCEPT !.pc = "lexed", !.tokens = r.tokens,
                          !.lex_error = r.error]
    /\ UNCHANGED notsyn

\* shell_exec_line gives up on a lexer error
SynLexError ==
    /\ syn.pc = "lexed"
    /\ syn.lex_error # ""
    /\ syn' = [syn EXCEPT !.pc = "done", !.ret = 2]
    /\ UNCHANGED notsyn

\* the line once parser_parse has returned r, or has not returned
Parsed(s, r) ==
    IF r.P.diverged THEN [s EXCEPT !.pc = "diverged"]
    ELSE [s EXCEPT !.pc = "parsed", !.ast = r.node,
                   !.had_error = r.P.had_error, !.error = r.P.error]

\* parser_init and parser_parse on the token list, as shell_exec_line calls
\* them after a clean tokenisation and as parse_str of test_parser.c calls
\* them on whatever list lexer_tokenize returned
SynParse ==
    /\ syn.pc = "lexed"
    /\ syn' = Parsed(syn, parse_program(syn.tokens))
    /\ UNCHANGED notsyn

\* shell_exec_line going on to execute a line whose parse failed
SynParseError_executes ==
    /\ syn.pc = "parsed"
    /\ syn.input # <<>>
    /\ syn.lex_error = ""
    /\ syn.had_error \/ syn.ast = NoNode
    /\ syn' = [syn EXCEPT !.pc = "child", !.forked = TRUE]
    /\ UNCHANGED notsyn

\* shell_exec_line: parser.had_error || !ast; it gets here only when the
\* line is not empty and the lexer reported no error
SynParseError ==
    /\ syn.pc = "parsed"
    /\ syn.input # <<>>
    /\ syn.lex_error = ""
    /\ syn.had_error \/ syn.ast = NoNode
    /\ syn' = [syn EXCEPT !.pc = "done", !.ret = 2]
    /\ UNCHANGED notsyn

\* what builtins_execute can return for the expanded words: builtin_echo
\* returns 0, the other handlers 0 or 1
BuiltinStatuses(argv) ==
    IF argv = <<>> \/ ~builtins_is_builtin(argv[1]) \/ argv[1] = <<"e", "c", "h", "o">>
    THEN {0} ELSE {0, 1}

\* what descriptor fd of the running process is once the dup2 calls of
\* `applied` have been made: the target of the last one onto fd, or what the
\* process inherited
Inherited == <<"inherited">>

FdTarget(applied, fd) ==
    LET onto == {i \in 1..Len(applied) : applied[i].newfd = fd} IN
    IF onto = {} THEN Inherited
    ELSE applied[CHOOSE i \in onto : \A j \in onto : j <= i].redir.target

\* the line once the arguments are expanded into X: a builtin runs in the
\* shell itself and writes to the shell's descriptor 1, an external command
\* is forked
Expanded(s, X, st) ==
    IF X.argv = <<>>
    THEN [s EXCEPT !.pc = "done", !.ret = 0, !.env = X.env,
                   !.stderr = X.stderr]
    ELSE IF builtins_is_builtin(X.argv[1])
    THEN [s EXCEPT !.pc = "done", !.ret = st, !.env = X.env,
                   !.stderr = X.stderr, !.argv = X.argv, !.builtin = TRUE,
                   !.stdout = FdTarget(s.applied, 1)]
    ELSE [s EXCEPT !.pc = "child", !.forked = TRUE, !.env = X.env,
                   !.stderr = X.stderr, !.argv = X.argv,
                   !.chain = s.ast.redirs]

\* executor_exec_command up to the fork, or through the builtin.  The file
\* system decides which patterns match: hits.
SynExecCommand ==
    /\ syn.pc = "parsed"
    /\ syn.lex_error = ""
    /\ ~syn.had_error
    /\ syn.ast.type = "COMMAND"
    /\ IF syn.ast.argv = <<>> /\ syn.ast.assignments # <<>>
       THEN syn' = [syn EXCEPT !.pc = "done", !.ret = 0,
                               !.env = ApplyAssignments(@, syn.ast.assignments,
                                                        FALSE)]
       ELSE \E hits \in SUBSET (1..Len(syn.ast.argv)) :
            LET X == ExpandArgs(syn.ast.argv, 1, hits,
                                [out |-> <<>>, stderr |-> <<>>,
                                 env |-> syn.env, argv |-> <<>>])
            IN \E st \in BuiltinStatuses(X.argv) :
                   syn' = Expanded(syn, X, st)
    /\ UNCHANGED notsyn

\* a root that is not a simple command is executed by the other views
SynExecOther ==
    /\ syn.pc = "parsed"
    /\ syn.lex_error = ""
    /\ ~syn.had_error
    /\ syn.ast.type \notin {"NULL", "COMMAND"}
    /\ syn' = [syn EXCEPT !.pc = "elsewhere"]
    /\ UNCHANGED notsyn

\* one turn of the loop of executor_apply_redirections in the child: the
\* redirection at the head of what is left of the chain.  open and dup2 can
\* fail, and the child then exits with 1, which the parent's wait returns.
SynApplyRedir ==
    /\ syn.pc = "child"
    /\ syn.chain # <<>>
    /\ LET r == Head(syn.chain)
           dup == r.type \in {"REDIR_DUP_OUT", "REDIR_DUP_IN"}
           call == [redir |-> r,
                    oldfd |-> IF dup THEN atoi(r.target) ELSE OpenedFd,
                    newfd |-> r.fd]
       IN
       \E succeeds \in BOOLEAN :
           syn' = IF r.type = "REDIR_HEREDOC"
                  THEN [syn EXCEPT !.chain = Tail(@)]
                  ELSE IF succeeds
                  THEN [syn EXCEPT !.chain = Tail(@),
                                   !.applied = Append(@, call)]
                  ELSE [syn EXCEPT !.pc = "done", !.ret = 1]
    /\ UNCHANGED notsyn

\* the child's execve and execvp, and the parent's wait for it
SynExecve ==
    /\ syn.pc = "child"
    /\ syn.chain = <<>>
    /\ \E s \in {0, ENOENT_STATUS} : syn' = [syn EXCEPT !.pc = "done", !.ret = s]
    /\ UNCHANGED notsyn

SynInit == Init /\ ~interactive /\ ~installed

SynNext ==
    \/ \E f \in Frags : SynType(f)
    \/ SynSubmit
    \/ SynTokenize
    \/ SynLexError
    \/ SynParse
    \/ SynParseError
    \/ SynExecCommand
    \/ SynExecOther
    \/ SynApplyRedir
    \/ SynExecve

SynSpec == SynInit /\ [][SynNext]_vars

\* A second alphabet for the same view: a builtin name, a keyword, the
\* quotes, '$' and a ${VAR:?message} inside double quotes.
ExpFrags == { <<"e", "c", "h", "o">>, <<"i", "n">>, <<"a">>, <<" ">>, <<"'">>,
              <<"$">>, <<">">>, <<"&">>,
              <<"\"", "$", "{", "a", ":", "?", "a", "}", "\"">> }

ExpNext ==
    \/ \E f \in ExpFrags : SynType(f)
    \/ SynSubmit
    \/ SynTokenize
    \/ SynLexError
    \/ SynParse
    \/ SynParseError
    \/ SynExecCommand
    \/ SynExecOther
    \/ SynApplyRedir
    \/ SynExecve

ExpSpec == SynInit /\ [][ExpNext]_vars

\* A third alphabet: the line continuation, a backslash with a newline
\* behind it, among words, blanks, quotes and operators.
EscFrags == { <<"\\", "\n">>, <<"a">>, <<" ">>, <<"'">>, <<">">>, <<"|">> }

EscNext ==
    \/ \E f \in EscFrags : SynType(f)
    \/ SynSubmit
    \/ SynTokenize
    \/ SynLexError
    \/ SynParse
    \/ SynParseError
    \/ SynExecCommand
    \/ SynExecOther
    \/ SynApplyRedir
    \/ SynExecve

EscSpec == SynInit /\ [][EscNext]_vars

\* ---- main and shell_run: the read loop --------------------------------------
notrepl == <<jobvars, pl, drvvars, syn, disp, al, ar, ifx, ds>>

MaxLines == 3

\* the three loops that read lines: shell_run on a terminal, shell_run on
\* piped standard input, and main's loop over a script file
Modes == {"interactive", "stdin", "script"}

\* what a line can be: the exit builtin without an argument, some other
\* command, the empty line, a comment
LineKinds == {"exit", "cmd", "empty", "comment"}

\* main after shell_init, at the loop of its mode.  Whether the job table
\* holds a stopped job is left open.
ReplStart(m, stopped) ==
    /\ repl.pc = "main"
    /\ repl' = [repl EXCEPT !.pc = "loop", !.mode = m, !.has_stopped = stopped]
    /\ UNCHANGED notrepl

\* the condition of the loop besides the read itself: while (shell->running)
\* in interactive mode, nothing in the other two
LoopOpen == repl.mode = "interactive" => repl.running

\* vsh_readline or fgets returns a line of kind k.  The interactive loop
\* skips the empty line, the other two the empty line and the comment.
ReplRead(k) ==
    /\ repl.pc = "loop"
    /\ LoopOpen
    /\ repl.nread < MaxLines
    /\ repl' = IF k = "empty" \/ (k = "comment" /\ repl.mode # "interactive")
               THEN [repl EXCEPT !.nread = @ + 1]
               ELSE [repl EXCEPT !.nread = @ + 1, !.pc = "exec", !.line = k]
    /\ UNCHANGED notrepl

\* end of input: vsh_readline returns NULL, fgets returns NULL
ReplEof ==
    /\ repl.pc = "loop"
    /\ LoopOpen
    /\ repl' = [repl EXCEPT !.pc = "end"]
    /\ UNCHANGED notrepl

\* while (shell->running) finds the flag cleared
ReplStop ==
    /\ repl.pc = "loop"
    /\ ~LoopOpen
    /\ repl' = [repl EXCEPT !.pc = "end"]
    /\ UNCHANGED notrepl

\* builtin_exit without an argument
builtin_exit(r) ==
    IF r.has_stopped /\ ~r.warned_about_jobs
    THEN [r EXCEPT !.warned_about_jobs = TRUE, !.last_status = 1]
    ELSE [r EXCEPT !.running = FALSE, !.warned_about_jobs = FALSE]

\* shell_exec_line on the line read: exit, a command that returns v, or a
\* comment, which parses to no tree and is reported as a parse error; prev
\* keeps the last line that was a command
ReplExecLine ==
    /\ repl.pc = "exec"
    /\ \E v \in ExitCodes :
           repl' = [(CASE repl.line = "exit" -> builtin_exit(repl)
                       [] repl.line = "cmd" -> [repl EXCEPT !.last_status = v]
                       [] OTHER -> [repl EXCEPT !.last_status = 2])
                    EXCEPT !.pc = "loop", !.line = "",
                           !.prev = IF repl.line \in {"exit", "cmd"}
                                    THEN repl.line ELSE @]
    /\ UNCHANGED notrepl

ReplInit == Init /\ ~interactive /\ ~installed

ReplNext ==
    \/ \E m \in Modes, stopped \in BOOLEAN : ReplStart(m, stopped)
    \/ \E k \in LineKinds : ReplRead(k)
    \/ ReplEof
    \/ ReplStop
    \/ ReplExecLine

ReplSpec == ReplInit /\ [][ReplNext]_vars

\* ---- signal dispositions: shell_init and the forked children ----------------
notdisp == <<jobvars, pl, drvvars, syn, repl, al, ar, ifx, ds>>

Signals == {"SIGINT", "SIGQUIT", "SIGTSTP", "SIGTTIN", "SIGTTOU", "SIGPIPE",
            "SIGCHLD"}

\* the places that call fork
ForkSites == {"command", "pipeline", "background", "subshell"}

\* The shell is started: it inherits from its parent which signals are
\* ignored, the others are at their default; isatty tells whether it is
\* interactive.
DispShellStart(ign, isatty) ==
    /\ disp.pc = "unborn"
    /\ disp' = [disp EXCEPT !.pc = "init", !.interactive = isatty,
                            !.shell = [s \in Signals |->
                                          IF s \in ign THEN "IGN" ELSE "DFL"]]
    /\ UNCHANGED notdisp

job_control_init(d) ==
    [s \in Signals |->
        IF s \in {"SIGTSTP", "SIGTTIN", "SIGTTOU", "SIGQUIT"} THEN "IGN"
        ELSE IF s = "SIGCHLD" THEN "HANDLER" ELSE d[s]]

shell_setup_signals(d) ==
    [s \in Signals |->
        IF s \in {"SIGINT", "SIGQUIT", "SIGTSTP", "SIGTTIN", "SIGTTOU",
                  "SIGPIPE"} THEN "IGN"
        ELSE IF s = "SIGCHLD" THEN "HANDLER" ELSE d[s]]

\* the interactive-only part of shell_init
DispShellInit ==
    /\ disp.pc = "init"
    /\ disp' = [disp EXCEPT !.pc = "shell",
                            !.shell = IF disp.interactive
                                      THEN shell_setup_signals(job_control_init(@))
                                      ELSE @]
    /\ UNCHANGED notdisp

\* fork: the child starts with the dispositions of the shell
DispFork(site) ==
    /\ disp.pc = "shell"
    /\ disp' = [disp EXCEPT !.pc = "forked", !.site = site,
                            !.child = disp.shell]
    /\ UNCHANGED notdisp

child_reset_signals(d) ==
    [s \in Signals |->
        IF s \in {"SIGINT", "SIGQUIT", "SIGTSTP", "SIGTTIN", "SIGTTOU",
                  "SIGCHLD"} THEN "DFL"
        ELSE d[s]]

\* the call of child_reset_signals, which every site makes in the child
DispChildReset ==
    /\ disp.pc = "forked"
    /\ disp' = [disp EXCEPT !.pc = "reset", !.child = child_reset_signals(@)]
    /\ UNCHANGED notdisp

\* execve puts a caught signal back to its default and leaves an ignored one
\* ignored
execve(d) == [s \in Signals |-> IF d[s] = "HANDLER" THEN "DFL" ELSE d[s]]

\* The child runs its command: a simple command is exec'ed, a pipeline stage
\* is exec'ed or is a builtin run in the child, and the child of `&` or of a
\* subshell calls executor_execute itself.
DispChildRun ==
    /\ disp.pc = "reset"
    /\ \E execs \in (IF disp.site = "command" THEN {TRUE}
                      ELSE IF disp.site = "pipeline" THEN BOOLEAN
                      ELSE {FALSE}) :
           disp' = [disp EXCEPT !.pc = "running",
                                !.child = IF execs THEN execve(@) ELSE @]
    /\ UNCHANGED notdisp

\* the child is gone and the shell is back at its loop
DispChildExit ==
    /\ disp.pc = "running"
    /\ disp' = [disp EXCEPT !.pc = "shell", !.site = "none", !.child = <<>>]
    /\ UNCHANGED notdisp

DispInit == Init /\ ~interactive /\ ~installed

DispNext ==
    \/ \E ign \in SUBSET Signals, isatty \in BOOLEAN :
           DispShellStart(ign, isatty)
    \/ DispShellInit
    \/ \E site \in ForkSites : DispFork(site)
    \/ DispChildReset
    \/ DispChildRun
    \/ DispChildExit

DispSpec == DispInit /\ [][DispNext]_vars

\* ---- expand_aliases ---------------------------------------------------------
notal == <<jobvars, pl, drvvars, syn, repl, disp, ar, ifx, ds>>

MaxAliasLine == 2

\* the alias names, and the texts an alias can stand for; NoAlias is the NULL
\* of alias_lookup
AliasNames == {"a", "b"}
NoAlias == <<"NULL">>
AliasValues == { <<>>, <<"a">>, <<"b">>, <<"a", " ">>, <<"b", " ">> }

\* the lines over the names and the blank, up to the bound
RECURSIVE AliasLines(_)
AliasLines(n) ==
    IF n = 0 THEN {<<>>}
    ELSE AliasLines(n - 1) \cup
         {Append(l, c) : l \in {x \in AliasLines(n - 1) : Len(x) = n - 1},
                         c \in AliasNames \cup {" "}}

\* index of the first character from i on that is (not) a blank, Len + 1
\* when there is none
RECURSIVE SkipSpaces(_, _)
SkipSpaces(l, i) ==
    IF i <= Len(l) /\ l[i] = " " THEN SkipSpaces(l, i + 1) ELSE i

RECURSIVE SkipWord(_, _)
SkipWord(l, i) ==
    IF i <= Len(l) /\ l[i] # " " THEN SkipWord(l, i + 1) ELSE i

\* the first word of the line, <<>> when the line is blank
LeadingWord(l) ==
    SubSeq(l, SkipSpaces(l, 1), SkipWord(l, SkipSpaces(l, 1)) - 1)

\* alias_lookup: the names of the table are single characters
alias_lookup(table, word) ==
    IF Len(word) = 1 /\ word[1] \in DOMAIN table THEN table[word[1]]
    ELSE NoAlias

\* expand_aliases is entered with a table and a line; an empty line is
\* returned as it is
AlStart(table, line) ==
    /\ al.pc = "idle"
    /\ al' = [al EXCEPT !.pc = IF line = <<>> THEN "ret" ELSE "loop",
                        !.table = table, !.current = line]
    /\ UNCHANGED notal

\* one turn of the for loop; malloc of the new line can fail
AlIterate ==
    /\ al.pc = "loop"
    /\ LET word == LeadingWord(al.current)
           replacement == alias_lookup(al.table, word)
           ws == SkipSpaces(al.current, 1)
           we == SkipWord(al.current, ws)
           newline == SubSeq(al.current, 1, ws - 1) \o replacement
                          \o SubSeq(al.current, we, Len(al.current))
       IN
       IF al.depth >= 10 \/ word = <<>> \/ replacement = NoAlias
       THEN al' = [al EXCEPT !.pc = "ret"]
       ELSE \/ al' = [al EXCEPT !.pc = "ret"]
            \/ al' = [al EXCEPT
                         !.current = newline,
                         !.subs = @ + 1,
                         !.depth = @ + 1,
                         !.pc = IF replacement = <<>>
                                   \/ replacement[Len(replacement)] # " "
                                THEN "ret" ELSE "loop"]
    /\ UNCHANGED notal

AlInit == Init /\ ~interactive /\ ~installed

AlNext ==
    \/ \E table \in [AliasNames -> AliasValues \cup {NoAlias}],
          line \in AliasLines(MaxAliasLine) : AlStart(table, line)
    \/ AlIterate

AlSpec == AlInit /\ [][AlNext]_vars

\* ---- arena.c ----------------------------------------------------------------
\* size_t is modelled SizeBits wide, so that the sizes that wrap around are
\* within reach; a page is its size and used fields and the number of data
\* bytes its malloc block really holds (room, negative when the block is
\* smaller than the page header); the page list is a sequence, head first, and
\* current is always its last page.
notar == <<jobvars, pl, drvvars, syn, repl, disp, al, ifx, ds>>

SizeBits == 6
MaxPages == 3

SizeMod == 2 ^ SizeBits
SIZE_MAX == SizeMod - 1
ARENA_ALIGNMENT == 8
HeaderSize == 24
NULL == <<>>

PageSizes == {16, 24}
Requests == {1, 8, 9, 17, SIZE_MAX - 8, SIZE_MAX}
Counts == {2, 8}
ElemSizes == {4, 9}

\* (size + 7) & ~7 in size_t arithmetic
align_up(size) ==
    LET sum == (size + (ARENA_ALIGNMENT - 1)) % SizeMod
    IN  sum - (sum % ARENA_ALIGNMENT)

page_new(min_size) ==
    [size |-> min_size, used |-> 0,
     room |-> ((HeaderSize + min_size) % SizeMod) - HeaderSize]

\* the arena after arena_alloc(a, size); ptr is NULL or <<page, offset>>;
\* malloc_ok tells whether a malloc the call makes succeeds
arena_alloc(a, size, malloc_ok) ==
    IF size = 0 THEN [a EXCEPT !.ptr = NULL]
    ELSE
    LET aligned == align_up(size)
        page == a.pages[a.current]
    IN  IF (page.used + aligned) % SizeMod <= page.size
        THEN [a EXCEPT !.pages[a.current].used = (page.used + aligned) % SizeMod,
                       !.total_allocated = (a.total_allocated + aligned) % SizeMod,
                       !.ptr = <<a.current, page.used>>]
        ELSE LET new_size == IF aligned > a.page_size THEN aligned ELSE a.page_size
             IN  IF ~malloc_ok THEN [a EXCEPT !.ptr = NULL]
                 ELSE [a EXCEPT !.pages = Append(a.pages, [page_new(new_size) EXCEPT !.used = aligned]),
                                !.current = a.current + 1,
                                !.total_pages = a.total_pages + 1,
                                !.total_allocated = (a.total_allocated + aligned) % SizeMod,
                                !.ptr = <<a.current + 1, 0>>]

arena_reset_keeps_pages(a) ==
    [a EXCEPT !.pages[1].used = 0,
              !.current = 1, !.total_allocated = 0, !.total_pages = 1]

arena_reset(a) ==
    [a EXCEPT !.pages = << [a.pages[1] EXCEPT !.used = 0] >>,
              !.current = 1, !.total_allocated = 0, !.total_pages = 1]

RECURSIVE SumUsed(_)
SumUsed(pages) ==
    IF pages = <<>> THEN 0 ELSE (Head(pages).used + SumUsed(Tail(pages))) % SizeMod

arena_bytes_used(a) == SumUsed(a.pages)

\* whether the call may need a page more than the model keeps
NeedsPage(a, size) ==
    /\ size # 0
    /\ (a.pages[a.current].used + align_up(size)) % SizeMod > a.pages[a.current].size

ArCreate(page_size) ==
    /\ ar.pc = "idle"
    /\ ar' = [ArIdle EXCEPT !.pc = "created", !.pages = << page_new(page_size) >>,
                            !.current = 1, !.page_size = page_size,
                            !.total_pages = 1]
    /\ UNCHANGED notar

ArAlloc(size) ==
    /\ ar.pc # "idle"
    /\ NeedsPage(ar, size) => Len(ar.pages) < MaxPages
    /\ \E malloc_ok \in BOOLEAN :
          ar' = [arena_alloc(ar, size, malloc_ok) EXCEPT !.pc = "alloc", !.n = size, !.freed = 0]
    /\ UNCHANGED notar

ArCalloc(count, size) ==
    /\ ar.pc # "idle"
    /\ LET total == (count * size) % SizeMod
       IN  /\ NeedsPage(ar, total) => Len(ar.pages) < MaxPages
           /\ \E malloc_ok \in BOOLEAN :
                 ar' = [arena_alloc(ar, total, malloc_ok) EXCEPT !.pc = "alloc", !.n = count * size, !.freed = 0]
    /\ UNCHANGED notar

ArReset ==
    /\ ar.pc # "idle"
    /\ ar' = [arena_reset(ar) EXCEPT !.pc = "reset", !.freed = Len(ar.pages) - 1,
                                     !.n = 0, !.ptr = NULL]
    /\ UNCHANGED notar

ArDestroy ==
    /\ ar.pc # "idle"
    /\ ar' = ArIdle
    /\ UNCHANGED notar

ArInit == Init /\ ~interactive /\ ~installed

ArNext ==
    \/ \E page_size \in PageSizes : ArCreate(page_size)
    \/ \E size \in Requests : ArAlloc(size)
    \/ \E count \in Counts, size \in ElemSizes : ArCalloc(count, size)
    \/ ArReset
    \/ ArDestroy

ArSpec == ArInit /\ [][ArNext]_vars

\* ---- parse_if and exec_if ----------------------------------------------------
\* The token list of an if statement with the lists between its keywords taken
\* as parsed: a LIST token stands for what parse_list returns there, and names
\* its place (the condition or the body of clause idx; the else body).
notif == <<jobvars, pl, drvvars, syn, repl, disp, al, ar, ds>>

MaxElif == 4

Kw(t) == [type |-> t, role |-> "", idx |-> 0]
ListTok(role, idx) == [type |-> "LIST", role |-> role, idx |-> idx]

RECURSIVE ElifTokens(_, _)
ElifTokens(i, last) ==
    IF i > last THEN <<>>
    ELSE <<Kw("ELIF"), ListTok("cond", i), Kw("THEN"), ListTok("body", i)>>
         \o ElifTokens(i + 1, last)

\* if c1; then b1; elif c2; then b2; ... [else e;] fi
IfTokens(elifs, has_else) ==
    <<Kw("IF"), ListTok("cond", 1), Kw("THEN"), ListTok("body", 1)>>
    \o ElifTokens(2, elifs + 1)
    \o (IF has_else THEN <<Kw("ELSE"), ListTok("else", 0)>> ELSE <<>>)
    \o <<Kw("FI"), Kw("EOF")>>

make_if_node(condition, then_body, else_body) ==
    [type |-> "IF", condition |-> condition, then_body |-> then_body,
     else_body |-> else_body]

IfCheck(T, pos, t) == T[pos].type = t

\* the while (check(parser, TOK_ELIF)) loop that hangs each further clause on
\* the else_body of the one before, and the else that may follow it: the node
\* that ends up as the else_body of the clause before pos
RECURSIVE ElifLoop(_, _)
ElifLoop(T, pos) ==
    IF IfCheck(T, pos, "ELIF")
    THEN IF ~IfCheck(T, pos + 2, "THEN") THEN [ok |-> FALSE, node |-> NullPtr, pos |-> pos + 2]
         ELSE LET r == ElifLoop(T, pos + 4)
              IN  [r EXCEPT !.node = make_if_node(T[pos + 1], T[pos + 3], r.node)]
    ELSE IF IfCheck(T, pos, "ELSE")
    THEN [ok |-> TRUE, node |-> T[pos + 1], pos |-> pos + 2]
    ELSE [ok |-> TRUE, node |-> NullPtr, pos |-> pos]

\* parse_if once 'if' is consumed: the first clause, the first elif, the
\* second elif (rest) and the loop over the others, then the expected 'fi'
parse_if(T) ==
    IF ~IfCheck(T, 3, "THEN") THEN NullPtr
    ELSE IF IfCheck(T, 5, "ELIF")
    THEN IF ~IfCheck(T, 7, "THEN") THEN NullPtr
         ELSE IF IfCheck(T, 9, "ELIF")
         THEN IF ~IfCheck(T, 11, "THEN") THEN NullPtr
              ELSE LET r == ElifLoop(T, 13)
                       rest == make_if_node(T[10], T[12], r.node)
                       elif_node == make_if_node(T[6], T[8], rest)
                   IN  IF r.ok /\ IfCheck(T, r.pos, "FI")
                       THEN make_if_node(T[2], T[4], elif_node)
                       ELSE NullPtr
         ELSE IF IfCheck(T, 9, "ELSE")
         THEN IF IfCheck(T, 11, "FI")
              THEN make_if_node(T[2], T[4], make_if_node(T[6], T[8], T[10]))
              ELSE NullPtr
         ELSE IF IfCheck(T, 9, "FI")
              THEN make_if_node(T[2], T[4], make_if_node(T[6], T[8], NullPtr))
              ELSE NullPtr
    ELSE IF IfCheck(T, 5, "ELSE")
    THEN IF IfCheck(T, 7, "FI") THEN make_if_node(T[2], T[4], T[6]) ELSE NullPtr
    ELSE IF IfCheck(T, 5, "FI") THEN make_if_node(T[2], T[4], NullPtr) ELSE NullPtr

\* the statement is entered and parsed
IfParse(elifs, has_else) ==
    /\ ifx.pc = "idle"
    /\ LET T == IfTokens(elifs, has_else)
           ast == parse_if(T)
       IN  ifx' = [ifx EXCEPT !.pc = IF ast = NullPtr THEN "error" ELSE "exec",
                              !.tokens = T, !.ast = ast, !.node = ast]
    /\ UNCHANGED notif

\* exec_if that takes the then body whatever the condition returned
IfCondition_ignores_status ==
    /\ ifx.pc = "exec"
    /\ ifx.node.type = "IF"
    /\ \E cond \in ExitCodes :
          ifx' = [ifx EXCEPT !.conds = Append(@, <<ifx.node.condition.idx, cond>>),
                             !.pc = "body", !.node = ifx.node.then_body]
    /\ UNCHANGED notif

\* exec_if on the node the walk is at: the condition is executed and returns
\* cond; then the then body, the else body (through executor_execute, so a
\* nested if node is walked in turn), or return 0
IfCondition ==
    /\ ifx.pc = "exec"
    /\ ifx.node.type = "IF"
    /\ \E cond \in ExitCodes :
          ifx' = IF cond = 0
                 THEN [ifx EXCEPT !.conds = Append(@, <<ifx.node.condition.idx, cond>>),
                                  !.pc = "body", !.node = ifx.node.then_body]
                 ELSE IF ifx.node.else_body # NullPtr
                 THEN [ifx EXCEPT !.conds = Append(@, <<ifx.node.condition.idx, cond>>),
                                  !.pc = IF ifx.node.else_body.type = "IF"
                                         THEN "exec" ELSE "body",
                                  !.node = ifx.node.else_body]
                 ELSE [ifx EXCEPT !.conds = Append(@, <<ifx.node.condition.idx, cond>>),
                                  !.pc = "done", !.ret = 0]
    /\ UNCHANGED notif

\* executor_execute on a body, which returns v; exec_if returns that
IfBody ==
    /\ ifx.pc = "body"
    /\ \E v \in ExitCodes :
          ifx' = [ifx EXCEPT !.bodies = Append(@, <<ifx.node.role, ifx.node.idx, v>>),
                             !.pc = "done", !.ret = v]
    /\ UNCHANGED notif

\* the next statement
IfAgain ==
    /\ ifx.pc = "done"
    /\ ifx' = IfIdle
    /\ UNCHANGED notif

IfInit == Init /\ ~interactive /\ ~installed

IfNext ==
    \/ \E elifs \in 0..MaxElif, has_else \in BOOLEAN : IfParse(elifs, has_else)
    \/ IfCondition
    \/ IfBody
    \/ IfAgain

IfSpec == IfInit /\ [][IfNext]_vars

\* ---- the directory stack (shell.c, builtins/dirstack.c) -----------------------
\* touched is the set of indexes i for which the last call read or wrote
\* dirs[i].  An access outside the array is undefined: the process may die of
\* it or go on.
notds == <<jobvars, pl, drvvars, syn, repl, disp, al, ar, ifx>>

DIRSTACK_MAX == 64

InArray(i) == 0 <= i /\ i < DIRSTACK_MAX

\* for (int i = ds->top - 1; i >= 0; i--) printf(" %s", ds->dirs[i]);
print_dirstack(top) == {i \in -1..DIRSTACK_MAX : 0 <= i /\ i <= top - 1}

\* the stack after a call that left top at t and touched the slots in idx
DsAfter(t, idx) ==
    \E survives \in BOOLEAN :
        /\ survives \/ \E i \in idx : ~InArray(i)
        /\ ds' = [pc |-> IF survives THEN "run" ELSE "crashed", top |-> t,
                  touched |-> idx]

\* shell_init: calloc, then top = -1
DsShellInit ==
    /\ ds.pc = "unborn"
    /\ ds' = [pc |-> "run", top |-> -1, touched |-> {}]
    /\ UNCHANGED notds

\* pushd without an argument: the top entry and the current directory swap
DsPushdSwap ==
    /\ ds.pc = "run"
    /\ IF ds.top < 1 THEN DsAfter(ds.top, {})
       ELSE \E chdir_ok \in BOOLEAN :
               IF chdir_ok
               THEN DsAfter(ds.top, {ds.top - 1} \cup print_dirstack(ds.top))
               ELSE DsAfter(ds.top, {ds.top - 1})
    /\ UNCHANGED notds

\* pushd dir
builtin_pushd ==
    /\ ds.pc = "run"
    /\ IF ds.top >= DIRSTACK_MAX THEN DsAfter(ds.top, {})
       ELSE \E chdir_ok \in BOOLEAN :
               IF chdir_ok
               THEN DsAfter(ds.top + 1, {ds.top} \cup print_dirstack(ds.top + 1))
               ELSE DsAfter(ds.top, {})
    /\ UNCHANGED notds

\* popd: top--, the entry is taken out, and put back (top++) when chdir fails
builtin_popd ==
    /\ ds.pc = "run"
    /\ IF ds.top < 1 THEN DsAfter(ds.top, {})
       ELSE \E chdir_ok \in BOOLEAN :
               IF chdir_ok
               THEN DsAfter(ds.top - 1, {ds.top - 1} \cup print_dirstack(ds.top - 1))
               ELSE DsAfter(ds.top, {ds.top - 1})
    /\ UNCHANGED notds

builtin_dirs ==
    /\ ds.pc = "run"
    /\ DsAfter(ds.top, print_dirstack(ds.top))
    /\ UNCHANGED notds

\* shell_destroy: for (int i = 0; i <= top; i++) free(dirs[i]);
DsShellDestroy ==
    /\ ds.pc = "run"
    /\ LET idx == {i \in -1..DIRSTACK_MAX : 0 <= i /\ i <= ds.top}
       IN  \E survives \in BOOLEAN :
               /\ survives \/ \E i \in idx : ~InArray(i)
               /\ ds' = [pc |-> IF survives THEN "halt" ELSE "crashed",
                         top |-> ds.top, touched |-> idx]
    /\ UNCHANGED notds

DsInit == Init /\ ~interactive /\ ~installed

DsNext ==
    \/ DsShellInit
    \/ DsPushdSwap
    \/ builtin_pushd
    \/ builtin_popd
    \/ builtin_dirs
    \/ DsShellDestroy

DsSpec == DsInit /\ [][DsNext]_vars

\* ---- properties ------------------------------------------------------------
\* the processes forked for job j that exist or have existed
JobProcs(j) == {p \in Pids : procs[p].st # "unborn" /\ procs[p].job = j.pgid}

\* the main flow is between commands: at the read loop or in its scan
BetweenCommands == pc \in {"prompt", "cb", "jr"}

\* no SIGCHLD is pending or being handled
Quiescent == pc = "prompt" /\ ~inHandler /\ ~pending

\* C1: in interactive mode, whenever the shell is between foreground
\* commands (not waiting on a foreground job), the foreground process group
\* of the terminal is the shell's own group.
C1_ShellOwnsTerminal ==
    (interactive /\ BetweenCommands) => tty = ShellPgid

\* C2: when a foreground external command whose job was registered has
\* returned and its child has terminated, the status stored in last_status
\* is the child's exit code, or 128 + signal, whichever waitpid reaped it.
C2_ForegroundStatus ==
    (/\ pc = "done" /\ op.kind = "cmd" /\ op.n = 1 /\ cur # 0
     /\ procs[op.pids[1]].st \in {"zombie", "reaped"})
        => status = WaitResult(procs[op.pids[1]].ws)

\* C3: once every process of a job has terminated and been reaped, the job
\* is Done or Killed by the time the shell is back at its read loop: from
\* there no later waitpid can report a process of the job, so a job that is
\* Running or Stopped then stays so forever.
C3_NoOrphanedJob ==
    pc = "prompt" =>
        \A i \in 1..Len(jobs) :
            (JobProcs(jobs[i]) # {}
             /\ \A p \in JobProcs(jobs[i]) : procs[p].st = "reaped")
                => jobs[i].state \in {"Done", "Killed"}

\* C4: the SIGCHLD handler never executes while job_add has a node to
\* insert or job_remove has a node to unlink.
C4_HandlerExcluded ==
    inHandler => pc \notin {"ja_link", "jr"}

\* C5 (as stated): every change of the state of a job of the table is
\* made by a step of the SIGCHLD handler.
C5_OnlyHandlerChangesState ==
    [][\A i \in 1..Len(jobs) : \A k \in 1..Len(jobs') :
          (jobs[i].id = jobs'[k].id /\ jobs[i].state # jobs'[k].state)
              => inHandler]_vars

\* C5 (amended): every change of the state of a job of the table is made by
\* job_update_status, called by the SIGCHLD handler or by
\* job_wait_foreground for the child its own waitpid reported, or is the
\* assignment of Running by job_continue_foreground / job_continue_background
\* to the job that fg / bg named.
C5_StateWriters ==
    [][\A i \in 1..Len(jobs) : \A k \in 1..Len(jobs') :
          (jobs[i].id = jobs'[k].id /\ jobs[i].state # jobs'[k].state)
              => \/ inHandler
                 \/ /\ pc = "wf_update"
                    /\ \E n \in 1..Len(jobs[i].pids) : jobs[i].pids[n] = wpid
                 \/ /\ pc = "cont_set"
                    /\ jobs[i].id = cur
                    /\ jobs'[k].state = "Running"]_vars

\* C5 witness: with no handler installed, job_wait_foreground has completed
\* the job it waits for
C5_MainFlowWroteState ==
    /\ ~installed
    /\ pc = "wf_check"
    /\ job_find_by_id(jobs, cur) # 0
    /\ CurJob.state \in {"Done", "Killed"}

\* C6: a job leaves the table only in job_remove, called by the prompt-cycle
\* scan for a Done or Killed job whose status line it has just printed, or
\* in job_table_destroy at shutdown.
C6_RemovedAfterReport ==
    [][\A i \in 1..Len(jobs) :
          (\A k \in 1..Len(jobs') : jobs'[k].id # jobs[i].id)
              => \/ /\ pc = "jr"
                    /\ printed = jobs[i].id
                    /\ jobs[i].state \in {"Done", "Killed"}
                 \/ pc = "jd"]_vars

\* C6 witness: the scan is under way and a job created earlier is no longer
\* in the table
C6_Removed ==
    pc = "cb" /\ Len(jobs) < next_id - 1

\* C7: a job that is Done or Killed has every pid slot zeroed and every one
\* of its processes reaped.
C7_DoneMeansAllReported ==
    \A i \in 1..Len(jobs) :
        jobs[i].state \in {"Done", "Killed"}
            => /\ \A k \in 1..Len(jobs[i].pids) : jobs[i].pids[k] = 0
               /\ \A p \in JobProcs(jobs[i]) : procs[p].st = "reaped"

\* C7 witness: a job of several processes is Done or Killed
C7_PipelineJobDone ==
    \E i \in 1..Len(jobs) :
        Len(jobs[i].pids) >= 2 /\ jobs[i].state \in {"Done", "Killed"}

\* C8: while the SIGCHLD handler executes, the list keeps its jobs, their
\* order, ids, pgids and pid counts, a pid slot keeps its value or becomes
\* 0, next_id and the node job_add is building are unchanged, and nothing
\* is printed.
C8_HandlerFrame ==
    [][inHandler =>
          /\ Len(jobs') = Len(jobs)
          /\ \A i \in 1..Len(jobs) :
                /\ jobs'[i].id = jobs[i].id
                /\ jobs'[i].pgid = jobs[i].pgid
                /\ Len(jobs'[i].pids) = Len(jobs[i].pids)
                /\ \A k \in 1..Len(jobs[i].pids) :
                      jobs'[i].pids[k] \in {jobs[i].pids[k], 0}
          /\ next_id' = next_id
          /\ newjob' = newjob
          /\ printed' = printed]_vars

\* C8 witness: the handler is executing and has completed the job that the
\* command in progress has just registered
C8_HandlerMarkedDone ==
    /\ inHandler
    /\ pc = "wf_enter" /\ op.kind = "cmd"
    /\ job_find_by_id(jobs, cur) # 0
    /\ CurJob.state \in {"Done", "Killed"}

\* C9: in a shell that has installed the SIGCHLD handler, with no SIGCHLD
\* pending or being handled, every job that has a process stopped by a
\* signal is in state Stopped.
C9_StoppedProcessStoppedJob ==
    (installed /\ Quiescent) =>
        \A i \in 1..Len(jobs) :
            (\E p \in JobProcs(jobs[i]) : procs[p].st = "stopped")
                => jobs[i].state = "Stopped"

\* C10: when a pipeline that is not negated and whose job was registered has
\* returned and all its commands have terminated, the status returned is
\* the exit status of the rightmost command.  (Stated for a shell without
\* the SIGCHLD handler, where job_wait_foreground alone reaps the children.)
C10_StatusOfLastCommand ==
    (/\ ~installed
     /\ pc = "done" /\ op.kind = "pipe" /\ ~op.neg /\ cur # 0
     /\ Len(op.pids) = op.n
     /\ \A k \in 1..op.n : procs[op.pids[k]].st \in {"zombie", "reaped"})
        => status = WaitResult(procs[op.pids[op.n]].ws)
\* C11: when the parent of a pipeline of n >= 2 commands starts waiting, it
\* has forked exactly n children, opened exactly n - 1 pipes and holds no
\* pipe fd; at no time has it forked more than n children or opened more
\* than n - 1 pipes.
C11_PipelinePlumbing ==
    /\ Len(pl.kids) <= pl.n
    /\ pl.npipes <= IF pl.n = 0 THEN 0 ELSE pl.n - 1
    /\ pl.pc = "wait" =>
          /\ Len(pl.kids) = pl.n
          /\ pl.npipes = pl.n - 1
          /\ pl.fds = {}

\* C11 witness: the parent of a pipeline of three or more commands waits
C11_LongPipelineWaits ==
    pl.pc = "wait" /\ pl.n >= 3
\* C12: the executor never reaches a node of an AST whose arena generation
\* has been left by a reset: the AST of a line stays valid until the line's
\* execution has completed.
C12_AstValidWhileWalked ==
    (InFrame("exec") /\ Top.pos <= Len(Top.line)) => Top.gen = arena_gen

\* C13: the function body recorded by a definition points into the current
\* generation of the arena whenever the shell is between command lines.
C13_FunctionBodyValid ==
    (frames = <<>> /\ fn_body # -1) => fn_body = arena_gen

\* C14: the stages shell_exec_line has performed for a line are an initial
\* part of: history expansion, history recording, alias expansion, arena
\* reset, lexing, parsing, execution.
C14_StageOrder ==
    \A k \in 1..Len(frames) :
        /\ Len(frames[k].stages) <= Len(StageOrder)
        /\ frames[k].stages = SubSeq(StageOrder, 1, Len(frames[k].stages))

\* C14 witness: a line has gone through all seven stages, inside a sourced
\* file
C14_AllStagesDone ==
    Len(frames) >= 2 /\ Top.stages = StageOrder

\* ---- the lexer, the parser and simple commands ----------------------------
\* lexer_tokenize has returned its list for the line
Tokenized == syn.pc \notin {"idle", "line"}

\* C15: for every input, also one that produces a lex error such as an
\* unterminated quote, the token list lexer_tokenize returns has an EOF
\* token as its last element.
C15_TokenListEndsWithEof ==
    Tokenized => syn.tokens[Len(syn.tokens)].type = "EOF"

\* the node kinds ASTNodeType declares
NodeKinds == {"COMMAND", "PIPELINE", "AND", "OR", "SEQUENCE", "BACKGROUND",
              "NEGATE", "SUBSHELL", "IF", "WHILE", "FOR", "FUNCTION", "BLOCK"}

\* C16: for every token list the lexer produces, parser_parse returns, and
\* returns exactly one of two outcomes: a non-NULL AST whose root is of a
\* declared kind with no error recorded, or NULL with a non-empty error
\* message.
C16_AstOrError ==
    /\ syn.pc # "diverged"
    /\ syn.pc = "parsed" =>
           \/ /\ syn.ast # NoNode
              /\ syn.ast.type \in NodeKinds
              /\ ~syn.had_error
              /\ syn.error = ""
           \/ /\ syn.ast = NoNode
              /\ syn.error # ""

\* the redirections of a token list as they are written, left to right: an
\* operator and the word after it
RECURSIVE SourceRedirs(_)
SourceRedirs(T) ==
    IF Len(T) < 2 THEN <<>>
    ELSE IF is_redir(T[1].type) /\ T[2].type = "WORD"
    THEN <<[optype |-> T[1].type, fd |-> T[1].redir_fd, target |-> T[2].value]>>
             \o SourceRedirs(Tail(Tail(T)))
    ELSE SourceRedirs(Tail(T))

\* the operator token a redirection of the given type is written with
TokOfRedir(rtype) ==
    CASE rtype = "REDIR_INPUT" -> "REDIR_IN"
      [] rtype = "REDIR_OUTPUT" -> "REDIR_OUT"
      [] rtype = "REDIR_APPEND" -> "REDIR_APPEND"
      [] rtype = "REDIR_HEREDOC" -> "REDIR_HEREDOC"
      [] rtype \in {"REDIR_DUP_IN", "REDIR_DUP_OUT"} -> "REDIR_DUP"

\* C17: for a simple command whose redirections are written r1, ..., rk from
\* left to right, the applier performs them in that order: when the child
\* has performed them all, the i-th one it performed is ri.
C17_RedirsInSourceOrder ==
    (/\ syn.pc = "done"
     /\ syn.forked
     /\ Len(syn.applied) = Len(SourceRedirs(syn.tokens)))
    => \A i \in 1..Len(syn.applied) :
           /\ TokOfRedir(syn.applied[i].redir.type)
                  = SourceRedirs(syn.tokens)[i].optype
           /\ syn.applied[i].redir.target = SourceRedirs(syn.tokens)[i].target

\* the simple commands of a tree whose root is one or is a pipeline of them
CommandsOf(node) ==
    IF node.type = "COMMAND" THEN {node}
    ELSE {node.kids[i] : i \in {k \in 1..Len(node.kids) :
                                    node.kids[k].type = "COMMAND"}}

\* lines with the duplication 2>&1 after a command word, at the end of the
\* line and before a '|'
DupLines == { <<"a", " ", "2", ">", "&", "1">>,
              <<"a", " ", "2", ">", "&", "1", "|", "a">> }

\* C18: a command containing N>&M, also as the last thing before '|' or the
\* end of the line, parses without error into a command whose redirection
\* chain has a DupOut redirection with fd N and target M, and applying it
\* performs dup2(M, N).
C18_DupOutParsed ==
    syn.input \in DupLines =>
        /\ syn.pc # "diverged"
        /\ syn.pc = "parsed" =>
               /\ ~syn.had_error
               /\ \E c \in CommandsOf(syn.ast) :
                      \E i \in 1..Len(c.redirs) :
                          c.redirs[i] = [type |-> "REDIR_DUP_OUT", fd |-> 2,
                                         target |-> <<"1">>]
        /\ (syn.pc = "done" /\ syn.forked /\ syn.chain = <<>>) =>
               \E i \in 1..Len(syn.applied) :
                   syn.applied[i].oldfd = 1 /\ syn.applied[i].newfd = 2

\* the line is 2>&W or 2<&W for a word W of plain characters
DupWordLine(in) ==
    /\ Len(in) >= 4
    /\ SubSeq(in, 1, 3) \in {<<"2", ">", "&">>, <<"2", "<", "&">>}
    /\ \A i \in 4..Len(in) : in[i] \in {"a", "1", "="}

\* C19: for a digit N and a word W, lexing N>&W and lexing N<&W each yield
\* a single REDIR_DUP token with redir_fd = N and text W, followed by EOF.
C19_DupToken ==
    (Tokenized /\ DupWordLine(syn.input)) =>
        syn.tokens = << [type |-> "REDIR_DUP",
                         value |-> SubSeq(syn.input, 4, Len(syn.input)),
                         redir_fd |-> 2],
                        make_token("EOF", <<>>) >>

\* the token list is one or more words NAME=value and nothing else
AssignmentsOnly(T) ==
    /\ Len(T) >= 2
    /\ T[Len(T)].type = "EOF"
    /\ \A i \in 1..(Len(T) - 1) :
           T[i].type = "WORD" /\ env_parse_assignment(T[i].value).ok

\* C20: executing a line that consists only of assignments NAME=value sets
\* NAME to value, unexported, in the shell's environment, forks no process
\* and returns status 0.
C20_BareAssignment ==
    (syn.pc = "done" /\ syn.lex_error = "" /\ AssignmentsOnly(syn.tokens)) =>
        /\ ~syn.forked
        /\ syn.ret = 0
        /\ [key |-> env_parse_assignment(syn.tokens[Len(syn.tokens) - 1].value).key,
            value |-> env_parse_assignment(syn.tokens[Len(syn.tokens) - 1].value).value,
            exported |-> FALSE] \in syn.env

\* the line was one builtin command with a single `> file` on it, and it ran
BuiltinWithOutputRedir ==
    /\ syn.pc = "done"
    /\ syn.builtin
    /\ Len(syn.ast.redirs) = 1
    /\ syn.ast.redirs[1].type = "REDIR_OUTPUT"
    /\ syn.ast.redirs[1].fd = 1

\* C21: redirections attached to a simple command take effect for that
\* command even when its command word is a builtin: after `echo a > f` the
\* builtin's standard output was the file f, and the status is 0.
C21_BuiltinRedirected ==
    BuiltinWithOutputRedir =>
        (syn.stdout = syn.ast.redirs[1].target /\ syn.ret = 0)

\* the line is 'X' for an X without a single quote
SingleQuotedLine(in) ==
    /\ Len(in) >= 2
    /\ in[1] = "'" /\ in[Len(in)] = "'"
    /\ \A i \in 2..(Len(in) - 1) : in[i] # "'"

\* C22: for every string X that contains no single quote, lexing 'X' yields
\* exactly one token of kind WORD whose text is exactly X, followed by EOF.
C22_SingleQuotedRoundTrip ==
    (Tokenized /\ SingleQuotedLine(syn.input)) =>
        syn.tokens = << make_token("WORD",
                                   SubSeq(syn.input, 2, Len(syn.input) - 1)),
                        make_token("EOF", <<>>) >>

\* the words of the command have been expanded and it has been started
Started == syn.pc \in {"child", "done"} /\ syn.argv # <<>>

\* C23: text enclosed in single quotes reaches the command's argv verbatim:
\* the line 'X' runs with the one argument X, no parameter, tilde or glob
\* expansion having been applied to it.
C23_SingleQuotedVerbatim ==
    (Started /\ SingleQuotedLine(syn.input)) =>
        syn.argv = << SubSeq(syn.input, 2, Len(syn.input) - 1) >>

\* some Background node of the tree has a whole Sequence as its child
RECURSIVE WrapsSequence(_)
WrapsSequence(n) ==
    \/ n.type = "BACKGROUND" /\ n.kids[1].type = "SEQUENCE"
    \/ \E i \in 1..Len(n.kids) : WrapsSequence(n.kids[i])

\* C24: when `&` follows a list of several pipelines, only the pipeline
\* immediately to its left is wrapped in the Background node: no Background
\* node of the parsed tree contains a Sequence of earlier pipelines.
C24_BackgroundWrapsOnePipeline ==
    (syn.pc = "parsed" /\ ~syn.had_error) => ~WrapsSequence(syn.ast)

\* the line is over and its lexing or parsing reported an error
C26_ErrorReported ==
    syn.pc = "done" /\ (syn.lex_error # "" \/ syn.had_error)

\* C26: if lexing or parsing a command line reports an error, nothing from
\* that line is executed (no builtin runs, no process is forked) and the
\* status of the line is 2.
C26_ErrorPreventsExecution ==
    C26_ErrorReported =>
        (~syn.forked /\ ~syn.builtin /\ syn.applied = <<>> /\ syn.ret = 2)

\* C27: if a word of a command contains ${VAR:?msg} and VAR is unset or
\* empty, so that the message is written to standard error, the command
\* fails: it is not run, neither as a builtin nor as a forked process, and
\* the resulting status is non-zero.
C27_ExpansionErrorFails ==
    (syn.pc \in {"child", "done"} /\ syn.stderr # <<>>) =>
        (~syn.forked /\ ~syn.builtin /\ (syn.pc = "done" => syn.ret # 0))

\* C25: for every command and every child outcome (normal exit, death by
\* signal, stop by signal, failure to register the job), the value the
\* executor returns and stores in last_status is in 0..255.
C25_StatusInRange ==
    pc = "done" => status \in 0..255

\* C29: at shell exit, for every job still Running or Stopped, SIGKILL is
\* sent to its process group and every one of its processes is waited for:
\* when job_table_destroy leaves such a job behind, no process of the job is
\* left unreaped.
C29_ShutdownReapsJobs ==
    [][(pc = "jd_wait" /\ pc' = "jd") =>
           \A p \in JobProcs(jobs[cursor]) : procs'[p].st = "reaped"]_vars

\* C28: after the exit builtin has set running = false, the shell executes
\* no further input line: in interactive, piped-stdin and script-file mode
\* alike, a line is handed to shell_exec_line only while running is true.
C28_NoLineAfterExit ==
    repl.pc = "exec" => repl.running

\* C30: in every forked child, before it runs its command, all of SIGINT,
\* SIGQUIT, SIGTSTP, SIGTTIN, SIGTTOU, SIGPIPE and SIGCHLD have been restored
\* to the default disposition.
C30_ChildSignalsDefault ==
    disp.pc \in {"reset", "running"} =>
        \A s \in Signals : disp.child[s] = "DFL"

\* position i of the line is outside single quotes
Unquoted(in, i) == Cardinality({j \in 1..(i - 1) : in[j] = "'"}) % 2 = 0

\* the positions of the line where a backslash with a newline behind it stands
Continuations(in) ==
    {i \in 1..(Len(in) - 1) : in[i] = "\\" /\ in[i + 1] = "\n"}

\* the line without its backslash-newline pairs
RECURSIVE WithoutContinuations(_)
WithoutContinuations(in) ==
    IF Len(in) >= 2 /\ in[1] = "\\" /\ in[2] = "\n"
    THEN WithoutContinuations(SubSeq(in, 3, Len(in)))
    ELSE IF in = <<>> THEN <<>>
    ELSE <<in[1]>> \o WithoutContinuations(Tail(in))

\* the kinds and texts of a token list
KindsAndTexts(T) == [i \in 1..Len(T) |-> <<T[i].type, T[i].value>>]

\* C31: outside quotes, a backslash immediately followed by a newline is
\* discarded without any other effect on the token stream: lexing
\* A \<newline> B yields the same token kinds and texts as lexing A B.
C31_LineContinuation ==
    (/\ Tokenized
     /\ Continuations(syn.input) # {}
     /\ \A i \in Continuations(syn.input) : Unquoted(syn.input, i)) =>
        KindsAndTexts(syn.tokens) =
            KindsAndTexts(lexer_tokenize(WithoutContinuations(syn.input)).tokens)

\* C32: alias expansion computes a depth-limited fixpoint over the leading
\* word: when expand_aliases returns, either the leading word of the
\* resulting line is not a defined alias name, or exactly 10 substitutions
\* have been performed.
C32_AliasFixpoint ==
    al.pc = "ret" =>
        \/ alias_lookup(al.table, LeadingWord(al.current)) = NoAlias
        \/ al.subs = 10

\* C33: after arena_reset the arena holds its first page only, with no byte of
\* it used, and arena_bytes_used reports 0.
C33_ResetLeavesEmptyFirstPage ==
    ar.pc = "reset" =>
        /\ Len(ar.pages) = 1
        /\ ar.current = 1
        /\ ar.pages[1].used = 0
        /\ arena_bytes_used(ar) = 0

\* C33 witness: a reset that found bytes in use on three pages.
C33_ResetOfGrownArena ==
    /\ ar.pc = "reset"
    /\ ar.freed = 2

\* the bytes of a page that a caller can really use
Usable(page) == IF page.room < page.size THEN page.room ELSE page.size

\* C34: a successful arena_alloc or arena_calloc of n > 0 bytes returns an
\* 8-byte-aligned address whose n bytes lie within one page and are set aside
\* for the caller.
C34_AllocAlignedAndFits ==
    (ar.pc = "alloc" /\ ar.ptr # NULL) =>
        LET page == ar.pages[ar.ptr[1]]
            off == ar.ptr[2]
        IN  /\ (HeaderSize + off) % ARENA_ALIGNMENT = 0
            /\ off + ar.n <= Usable(page)
            /\ off + ar.n <= page.used

\* C35: Done and Killed are terminal: no step, the fg and bg builtins included,
\* takes a job that is Done or Killed to another state while it is in the table.
C35_DoneKilledTerminal ==
    [][\A i \in 1..Len(jobs), k \in 1..Len(jobs') :
          (jobs[i].id = jobs'[k].id /\ jobs[i].state \in {"Done", "Killed"})
              => jobs'[k].state = jobs[i].state]_vars

\* the table holds a finished job with this id
Finished(id) ==
    \E i \in 1..Len(jobs) : jobs[i].id = id /\ jobs[i].state \in {"Done", "Killed"}

\* C36: a job that is Done or Killed is eventually removed from the table
\* while the shell runs, in an interactive shell and in a script alike.
C36_FinishedJobsRemoved ==
    \A id \in Pids :
        Finished(id) ~> (job_find_by_id(jobs, id) = 0)

\* C37: with stopped jobs, exit ends the shell only when the command run just
\* before it was an exit too (the one that warned); after any other command
\* the exit warns again.
C37_ExitNeedsConsecutiveAttempt ==
    [][(/\ repl.pc = "exec" /\ repl.line = "exit" /\ repl.has_stopped
        /\ repl.running /\ ~repl'.running)
           => repl.prev = "exit"]_vars

\* a line of blanks only, which lexes to the end-of-input token alone
BlankLine(in) == in # <<>> /\ \A i \in 1..Len(in) : in[i] = " "

\* C38: executing a line of whitespace only, which parses to no tree and no
\* error, is a no-op: shell_exec_line returns without storing a status.
C38_BlankLineIsNoOp ==
    (syn.pc = "done" /\ BlankLine(syn.input)) => syn.ret = -1

\* the number of conditions of the statement entered, and whether it has an else
Clauses(T) == Cardinality({i \in 1..Len(T) : T[i].role = "cond"})
HasElse(T) == \E i \in 1..Len(T) : T[i].role = "else"

\* C39: an if/elif/else chain evaluates its conditions in order up to the
\* first that returns 0 and runs the body of that clause only; when none
\* returns 0 it runs the else body, if there is one; its status is that of the
\* body run, and 0 when none ran.
C39_FirstTrueClauseRuns ==
    ifx.pc = "done" =>
        LET n == Len(ifx.conds)
        IN  /\ n >= 1
            /\ \A i \in 1..n : ifx.conds[i][1] = i
            /\ \A i \in 1..(n - 1) : ifx.conds[i][2] # 0
            /\ IF ifx.conds[n][2] = 0
               THEN /\ Len(ifx.bodies) = 1
                    /\ ifx.bodies[1][1] = "body" /\ ifx.bodies[1][2] = n
                    /\ ifx.ret = ifx.bodies[1][3]
               ELSE /\ n = Clauses(ifx.tokens)
                    /\ IF HasElse(ifx.tokens)
                       THEN /\ Len(ifx.bodies) = 1
                            /\ ifx.bodies[1][1] = "else"
                            /\ ifx.ret = ifx.bodies[1][3]
                       ELSE ifx.bodies = <<>> /\ ifx.ret = 0

\* C39 witness: a chain with three elifs and an else whose fourth condition is
\* the first to return 0, so that the body of the fourth clause has run.
C39_FourthClauseTaken ==
    /\ ifx.pc = "done"
    /\ HasElse(ifx.tokens)
    /\ Len(ifx.conds) = 4
    /\ ifx.bodies # <<>> /\ ifx.bodies[1][2] = 4

\* C40: once the shell is initialised the directory stack index satisfies
\* 0 <= top <= DIRSTACK_MAX, and every dirs[i] that is read or written has
\* 0 <= i < DIRSTACK_MAX.
C40_DirstackIndexInBounds ==
    ds.pc # "unborn" =>
        /\ 0 <= ds.top /\ ds.top <= DIRSTACK_MAX
        /\ \A i \in ds.touched : InArray(i)

====
